---- MODULE Spec2Model ----
(***************************************************************************)
(* A model of wutag: the tag registry (wutag_core/src/registry.rs), the    *)
(* daemon's request handlers (wutag_daemon/src/daemon.rs) and the watch    *)
(* loops (wutag_daemon/src/notifyd.rs, inotifyd.rs).                       *)
(***************************************************************************)
EXTENDS Integers, Sequences, FiniteSets, TLC

\* ------------------------------------------------------------------ bounds
NumPaths == 2
NumNames == 2
NumColors == 2
MaxStamp == 1
MaxNames == 3
NumFiles == 1
NumRequestColors == 1
MaxFiles == 1
MaxTags == 2
MaxQueue == 1
MaxValueLen == 2
MaxWireTags == 2
MaxBacklog == 2
GiveUpAt == 5

Paths == 1..NumPaths
Names == 1..NumNames
Colors == 1..NumColors
\* what the daemon's runs draw from: the paths the clients name and the file
\* system changes, the colors the requests carry
Files == 1..NumFiles
RequestColors == 1..NumRequestColors
\* an EntryId is a usize made from a clock reading
EntryIds == 0..MaxStamp
\* chrono::Utc::now().timestamp_nanos(): a signed wall-clock reading
Clock == (-MaxStamp)..MaxStamp
\* the lists of tag names a query is given
NameLists == UNION {[1..n -> Names] : n \in 0..MaxNames}

\* ------------------------------------------------------------------- state
VARIABLES
    tags,      \* TagRegistry.tags: HashMap<Tag, BTreeSet<EntryId>>
    entries,   \* TagRegistry.entries: HashMap<EntryId, EntryData>, the data being its path
    minted,    \* history, kept by SpecIds: every <<id, path>> that entries ever held
    ret,       \* the last call: its name, its arguments and what it returned
    exists,    \* the paths that are files now
    xattrs,    \* the attribute keys under user.wutag of each path
    disk,      \* the registry file: None, or Some of the bytes save() wrote last
    entries_events,  \* ENTRIES_EVENTS: the deltas the handlers pushed
    fs_events,       \* the removals the watch backend reported, not yet handled
    watched,         \* the paths the watch backend holds a watch for
    backend,         \* the watch loop of the build: "notify" or "inotify"
    links,     \* the symbolic links: for each path None, or Some of the path it names
    raw,       \* one file's attributes as the system calls see them: name to value
    pending,   \* a retrieval between its size query and its fetch, or None
    conn,      \* the local socket's connection, or None: both byte streams
    backlog,   \* the connections clients made that the listener has not accepted
    conns,     \* IpcServer.conns: the accepted connections awaiting their response
    h1,        \* the connection thread of main: where it is in process_connection
    h2,        \* the watch loop's thread: where it is in work_loop
    lock,      \* REGISTRY's RwLock: "free", the thread that holds it, or "poisoned"
    alive      \* the daemon process runs

regvars == <<tags, entries, minted, ret>>
procvars == <<backlog, conns, h1, h2, lock, alive>>
iovars == <<links, raw, pending, conn, procvars>>
envvars == <<exists, xattrs, disk, entries_events, fs_events, watched, backend, iovars>>
vars == <<tags, entries, minted, ret, exists, xattrs, disk, entries_events, fs_events,
          watched, backend, links, raw, pending, conn,
          backlog, conns, h1, h2, lock, alive>>

\* Option<T>
None == <<>>
Some(x) == <<x>>

\* a Vec collected from a set, in the order the iteration gives
RECURSIVE SetToSeq(_)
SetToSeq(S) ==
    IF S = {} THEN <<>>
    ELSE LET x == CHOOSE y \in S : \A z \in S : y <= z
         IN <<x>> \o SetToSeq(S \ {x})

\* ------------------------------------------------------------ Tag (tag.rs)
Tag(name, color) == [name |-> name, color |-> color]
Tags == {Tag(n, c) : n \in Names, c \in Colors}

TagEqColor(a, b) == a = b
\* impl PartialEq for Tag: by name alone
TagEq(a, b) == a.name = b.name

\* impl Ord for Tag: a Vec of the tags in the order of their names
TagsToSeq(S) ==
    LET ns == SetToSeq({t.name : t \in S})
    IN [i \in DOMAIN ns |-> CHOOSE t \in S : t.name = ns[i]]

\* ------------------------------------- HashMap<Tag, BTreeSet<EntryId>>
\* the keys of the map equal (PartialEq, Hash) to `tag`
KeysEq(m, tag) == {k \in DOMAIN m : TagEq(k, tag)}
ContainsKey(m, tag) == KeysEq(m, tag) # {}
KeyOf(m, tag) == CHOOSE k \in KeysEq(m, tag) : TRUE
\* HashMap::insert keeps the key already stored and replaces its value
MapInsert(m, tag, v) ==
    IF ContainsKey(m, tag)
    THEN [m EXCEPT ![KeyOf(m, tag)] = v]
    ELSE [k \in DOMAIN m \cup {tag} |-> IF k = tag THEN v ELSE m[k]]
MapRemove(m, tag) == [k \in DOMAIN m \ KeysEq(m, tag) |-> m[k]]
\* HashMap<EntryId, EntryData>::insert and ::remove
EntInsert(e, id, data) == [i \in DOMAIN e \cup {id} |-> IF i = id THEN data ELSE e[i]]
EntRemove(e, id) == [i \in DOMAIN e \ {id} |-> e[i]]

Registry(t, e) == [tags |-> t, entries |-> e]
EmptyMap == [x \in {} |-> {}]

\* ------------------------------------------- TagRegistry (registry.rs)
list_entry_tags_single(t, id) ==
    LET found == {k \in DOMAIN t : id \in t[k]}
    IN IF Cardinality(found) <= 1 THEN None ELSE Some(found)
list_entry_tags(t, id) ==
    LET found == {k \in DOMAIN t : id \in t[k]}
    IN IF found = {} THEN None ELSE Some(found)

find_entry(e, path) ==
    LET found == {i \in DOMAIN e : e[i] = path}
    IN IF found = {} THEN None ELSE Some(CHOOSE i \in found : TRUE)

get_entry(e, id) == IF id \in DOMAIN e THEN Some(e[id]) ELSE None

get_tag(t, name) ==
    LET found == {k \in DOMAIN t : k.name = name}
    IN IF found = {} THEN None ELSE Some(CHOOSE k \in found : TRUE)

\* the i64 clock reading made a usize
Timestamp(now) == IF now < 0 THEN -now ELSE now

add_or_update_entry(r, entry, now) ==
    LET pos == find_entry(r.entries, entry)
    IN IF pos # None
       THEN [reg |-> Registry(r.tags, [r.entries EXCEPT ![pos[1]] = entry]),
             val |-> <<pos[1], FALSE>>]
       ELSE [reg |-> Registry(r.tags, EntInsert(r.entries, Timestamp(now), entry)),
             val |-> <<Timestamp(now), TRUE>>]

mut_tag_entries_fresh(t, tag) == MapInsert(t, tag, {})
mut_tag_entries(t, tag) ==
    IF ~(\E k \in DOMAIN t : TagEq(k, tag)) THEN MapInsert(t, tag, {}) ELSE t

tag_entry(r, tag, id) ==
    LET t1 == mut_tag_entries(r.tags, tag)
        k  == KeyOf(t1, tag)
    IN IF id \in t1[k]
       THEN [reg |-> Registry(t1, r.entries), val |-> Some(id)]
       ELSE [reg |-> Registry([t1 EXCEPT ![k] = @ \cup {id}], r.entries), val |-> None]

clean_tag_keep(t, tag) == t
clean_tag_if_no_entries(t, tag) ==
    LET remove == IF ContainsKey(t, tag) THEN t[KeyOf(t, tag)] = {} ELSE FALSE
    IN IF remove THEN MapRemove(t, tag) ELSE t

untag_entry_keeps(r, tag, id) ==
    LET t1 == mut_tag_entries(r.tags, tag)
        t2 == [t1 EXCEPT ![KeyOf(t1, tag)] = @ \ {id}]
    IN [reg |-> Registry(clean_tag_if_no_entries(t2, tag), r.entries), val |-> None]
untag_entry(r, tag, id) ==
    LET t1 == mut_tag_entries(r.tags, tag)
        t2 == [t1 EXCEPT ![KeyOf(t1, tag)] = @ \ {id}]
        t3 == clean_tag_if_no_entries(t2, tag)
    IN IF list_entry_tags(t3, id) = None
       THEN [reg |-> Registry(t3, EntRemove(r.entries, id)), val |-> get_entry(r.entries, id)]
       ELSE [reg |-> Registry(t3, r.entries), val |-> None]

untag_by_name(r, name, id) ==
    IF get_tag(r.tags, name) = None
    THEN [reg |-> r, val |-> None]
    ELSE untag_entry(r, get_tag(r.tags, name)[1], id)

clear_entry_keeps_tags(r, id) ==
    Registry([k \in DOMAIN r.tags |-> r.tags[k] \ {id}], EntRemove(r.entries, id))
clear_entry(r, id) ==
    LET t1 == [k \in DOMAIN r.tags |-> r.tags[k] \ {id}]
        to_remove == {k \in DOMAIN t1 : t1[k] = {}}
    IN Registry([k \in DOMAIN t1 \ to_remove |-> t1[k]], EntRemove(r.entries, id))

remove_entry(r, id) ==
    [reg |-> Registry(r.tags, EntRemove(r.entries, id)), val |-> get_entry(r.entries, id)]

RECURSIVE any_fold_replace(_, _, _)
any_fold_replace(t, names, acc) ==
    IF names = <<>> THEN acc
    ELSE LET found == get_tag(t, Head(names))
         IN any_fold_replace(t, Tail(names), IF found # None THEN t[found[1]] ELSE acc)
\* Returns entries that have any tag of the `tags` (the fold, name by name).
RECURSIVE any_fold(_, _, _)
any_fold(t, names, acc) ==
    IF names = <<>> THEN acc
    ELSE LET found == get_tag(t, Head(names))
         IN any_fold(t, Tail(names),
                     IF found # None THEN acc \cup t[found[1]] ELSE acc)

list_entries_with_any_tags(t, names) == any_fold(t, names, {})

\* Returns entries that have all of the `tags` (the fold, name by name).
RECURSIVE all_fold(_, _, _)
all_fold(t, names, acc) ==
    IF names = <<>> THEN acc
    ELSE LET found == get_tag(t, Head(names))
         IN all_fold(t, Tail(names),
                     IF found # None
                     THEN IF acc = {} THEN t[found[1]] ELSE acc \cap t[found[1]]
                     ELSE acc)

list_entries_with_all_tags(t, names) == all_fold(t, names, {})

update_tag_color_insert_only(r, name, color) ==
    LET found == get_tag(r.tags, name)
    IN IF found # None
       THEN [reg |-> Registry(MapInsert(r.tags, Tag(name, color), r.tags[found[1]]), r.entries),
             val |-> TRUE]
       ELSE [reg |-> r, val |-> FALSE]
update_tag_color(r, name, color) ==
    LET found == get_tag(r.tags, name)
    IN IF found # None
       THEN LET data == r.tags[KeyOf(r.tags, found[1])]
            IN [reg |-> Registry(MapInsert(MapRemove(r.tags, found[1]),
                                           Tag(name, color), data), r.entries),
                val |-> TRUE]
       ELSE [reg |-> r, val |-> FALSE]

clear(r) == Registry(EmptyMap, EmptyMap)

\* serde_cbor::to_vec(&self): the tags map as its pairs of a Tag and the array
\* of its BTreeSet, the entries map as its pairs of an id and a path
save_without_colors(r) ==
    LET ks == TagsToSeq(DOMAIN r.tags)
        ids == SetToSeq(DOMAIN r.entries)
    IN [tags |-> [n \in DOMAIN ks |-> <<Tag(ks[n].name, 1), SetToSeq(r.tags[ks[n]])>>],
        entries |-> [n \in DOMAIN ids |-> <<ids[n], r.entries[ids[n]]>>]]
save(r) ==
    LET ks == TagsToSeq(DOMAIN r.tags)
        ids == SetToSeq(DOMAIN r.entries)
    IN [tags |-> [n \in DOMAIN ks |-> <<ks[n], SetToSeq(r.tags[ks[n]])>>],
        entries |-> [n \in DOMAIN ids |-> <<ids[n], r.entries[ids[n]]>>]]

\* serde_cbor::from_slice: each map is built by inserting its pairs in turn
RECURSIVE load_tags(_, _)
load_tags(pairs, acc) ==
    IF pairs = <<>> THEN acc
    ELSE load_tags(Tail(pairs),
                   MapInsert(acc, Head(pairs)[1],
                             {Head(pairs)[2][n] : n \in DOMAIN Head(pairs)[2]}))

RECURSIVE load_entries(_, _)
load_entries(pairs, acc) ==
    IF pairs = <<>> THEN acc
    ELSE load_entries(Tail(pairs), EntInsert(acc, Head(pairs)[1], Head(pairs)[2]))

load(data) == Registry(load_tags(data.tags, EmptyMap), load_entries(data.entries, EmptyMap))

\* REGISTRY: the file loaded, or a new registry when there is none
load_or_new(file) == IF file = None THEN Registry(EmptyMap, EmptyMap) ELSE load(file[1])

\* TagRegistry::clear_tag is called by the daemon but its body is not in the
\* sources: deletes the tag, removes and returns the entries left without a tag.
clear_tag(r, tag) ==
    IF ~ContainsKey(r.tags, tag)
    THEN [reg |-> r, val |-> None]
    ELSE LET ids == r.tags[KeyOf(r.tags, tag)]
             t1 == MapRemove(r.tags, tag)
             gone == {i \in ids : list_entry_tags(t1, i) = None /\ i \in DOMAIN r.entries}
         IN [reg |-> Registry(t1, [i \in DOMAIN r.entries \ gone |-> r.entries[i]]),
             val |-> Some({r.entries[i] : i \in gone})]

search_unguarded(r, names, any) ==
    LET ids == IF any THEN list_entries_with_any_tags(r.tags, names)
               ELSE list_entries_with_all_tags(r.tags, names)
    IN [kind |-> "Search", ok |-> TRUE,
        found |-> {r.entries[i] : i \in ids \cap DOMAIN r.entries}]
\* WutagDaemon::search: the response to Request::Search { tags, any }
search(r, names, any) ==
    IF names = <<>>
    THEN [kind |-> "Search", ok |-> FALSE, found |-> {}]
    ELSE LET ids == IF any THEN list_entries_with_any_tags(r.tags, names)
                    ELSE list_entries_with_all_tags(r.tags, names)
         IN [kind |-> "Search", ok |-> TRUE,
             found |-> {r.entries[i] : i \in ids \cap DOMAIN r.entries}]

\* ---------------------------------------------------- registry operations
Reg == Registry(tags, entries)

Minted(e) == minted \cup {<<i, e[i]>> : i \in DOMAIN e}

AddOrUpdateEntry ==
    \E p \in Paths, now \in Clock :
        \E res \in {add_or_update_entry(Reg, p, now)} :
           /\ tags' = res.reg.tags
           /\ entries' = res.reg.entries
           /\ ret' = [op |-> "add_or_update_entry", path |-> p, val |-> res.val]
           /\ UNCHANGED <<minted, envvars>>

\* the same call, with the history of ids recorded
AddOrUpdateEntryMinted ==
    \E p \in Paths, now \in Clock :
        \E res \in {add_or_update_entry(Reg, p, now)} :
           /\ tags' = res.reg.tags
           /\ entries' = res.reg.entries
           /\ ret' = [op |-> "add_or_update_entry", path |-> p, val |-> res.val]
           /\ minted' = Minted(res.reg.entries)
           /\ UNCHANGED envvars

TagEntry ==
    \E tag \in Tags, id \in EntryIds :
        \E res \in {tag_entry(Reg, tag, id)} :
           /\ tags' = res.reg.tags
           /\ entries' = res.reg.entries
           /\ ret' = [op |-> "tag_entry", tag |-> tag, id |-> id, val |-> res.val]
           /\ UNCHANGED <<minted, envvars>>

UntagEntry ==
    \E tag \in Tags, id \in EntryIds :
        \E res \in {untag_entry(Reg, tag, id)} :
           /\ tags' = res.reg.tags
           /\ entries' = res.reg.entries
           /\ ret' = [op |-> "untag_entry", tag |-> tag, id |-> id, val |-> res.val]
           /\ UNCHANGED <<minted, envvars>>

UntagByName ==
    \E n \in Names, id \in EntryIds :
        \E res \in {untag_by_name(Reg, n, id)} :
           /\ tags' = res.reg.tags
           /\ entries' = res.reg.entries
           /\ ret' = [op |-> "untag_by_name", name |-> n, id |-> id, val |-> res.val]
           /\ UNCHANGED <<minted, envvars>>

ClearEntry ==
    \E id \in EntryIds :
        \E reg \in {clear_entry(Reg, id)} :
           /\ tags' = reg.tags
           /\ entries' = reg.entries
           /\ ret' = [op |-> "clear_entry", id |-> id, val |-> None]
           /\ UNCHANGED <<minted, envvars>>

RemoveEntry ==
    \E id \in EntryIds :
        \E res \in {remove_entry(Reg, id)} :
           /\ tags' = res.reg.tags
           /\ entries' = res.reg.entries
           /\ ret' = [op |-> "remove_entry", id |-> id, val |-> res.val]
           /\ UNCHANGED <<minted, envvars>>

ClearTag ==
    \E tag \in Tags :
        \E res \in {clear_tag(Reg, tag)} :
           /\ tags' = res.reg.tags
           /\ entries' = res.reg.entries
           /\ ret' = [op |-> "clear_tag", tag |-> tag, val |-> res.val]
           /\ UNCHANGED <<minted, envvars>>

UpdateTagColor ==
    \E n \in Names, c \in Colors :
        \E res \in {update_tag_color(Reg, n, c)} :
           /\ tags' = res.reg.tags
           /\ entries' = res.reg.entries
           /\ ret' = [op |-> "update_tag_color", name |-> n, color |-> c, val |-> res.val]
           /\ UNCHANGED <<minted, envvars>>

Clear ==
    /\ tags' = clear(Reg).tags
    /\ entries' = clear(Reg).entries
    /\ ret' = [op |-> "clear", val |-> None]
    /\ UNCHANGED <<minted, envvars>>

FindEntry ==
    \E p \in Paths :
        /\ ret' = [op |-> "find_entry", path |-> p, val |-> find_entry(entries, p)]
        /\ UNCHANGED <<tags, entries, minted, envvars>>

ListAny ==
    \E names \in NameLists :
        /\ ret' = [op |-> "list_entries_with_any_tags", names |-> names,
                   val |-> list_entries_with_any_tags(tags, names)]
        /\ UNCHANGED <<tags, entries, minted, envvars>>

ListAll ==
    \E names \in NameLists :
        /\ ret' = [op |-> "list_entries_with_all_tags", names |-> names,
                   val |-> list_entries_with_all_tags(tags, names)]
        /\ UNCHANGED <<tags, entries, minted, envvars>>

Search ==
    \E names \in NameLists, any \in BOOLEAN :
        /\ ret' = [op |-> "Search", names |-> names, any |-> any,
                   val |-> search(Reg, names, any)]
        /\ UNCHANGED <<tags, entries, minted, envvars>>

\* save() and then load(), on a file of a temporary directory that goes with it
SavesAndLoads ==
    \E loaded \in {load(save(Reg))} :
        /\ tags' = loaded.tags
        /\ entries' = loaded.entries
        /\ ret' = [op |-> "load", val |-> None]
        /\ UNCHANGED <<minted, envvars>>

\* TagRegistry::new, no file touched and no daemon running
InitReg ==
    /\ tags = EmptyMap
    /\ entries = EmptyMap
    /\ minted = {}
    /\ ret = [op |-> "new", val |-> None]
    /\ exists = {}
    /\ xattrs = [p \in Paths |-> {}]
    /\ disk = None
    /\ entries_events = <<>>
    /\ fs_events = <<>>
    /\ watched = {}
    /\ backend = "notify"
    /\ links = [p \in Paths |-> None]
    /\ raw = <<>>
    /\ pending = None
    /\ conn = None
    /\ backlog = <<>>
    /\ conns = <<>>
    /\ h1 = [pc |-> "accept"]
    /\ h2 = [pc |-> "poll"]
    /\ lock = "free"
    /\ alive = TRUE

\* the registry under every mutating call
NextReg ==
    \/ AddOrUpdateEntry
    \/ TagEntry
    \/ UntagEntry
    \/ UntagByName
    \/ ClearEntry
    \/ RemoveEntry
    \/ ClearTag
    \/ UpdateTagColor
    \/ Clear
    \/ FindEntry
    \/ SavesAndLoads

SpecReg == InitReg /\ [][NextReg]_vars

\* the queries, on the registries that tagging and untagging build
NextQuery ==
    \/ AddOrUpdateEntry
    \/ TagEntry
    \/ UntagEntry
    \/ ListAny
    \/ ListAll
    \/ Search

SpecQuery == InitReg /\ [][NextQuery]_vars

\* the ids over the registry's lifetime
NextIds ==
    \/ AddOrUpdateEntryMinted
    \/ TagEntry
    \/ UntagEntry
    \/ ClearEntry

SpecIds == InitReg /\ [][NextIds]_vars

\* ------------------------------------------ attributes (tag.rs, xattr)
\* Tag::hash: the key is the namespace and the base64 of the name alone
hash(tag) == [enc |-> "name", of |-> tag.name]
\* Tag::try_from: the payload is read as the CBOR of a whole Tag, which the
\* base64 of a bare name is not
try_from(key) == IF key.enc = "cbor" THEN Some(key.of) ELSE None

\* the attributes of other namespaces on a file whose attribute space is used
\* up: no key of WUTAG_NAMESPACE, seen by no function of tag.rs
Filler == [enc |-> "other", of |-> 0]

\* list_xattrs fails on a path that is no file
list_xattrs(x, ex, path) == IF path \in ex THEN Some(x[path]) ELSE None

list_tags(x, ex, path) ==
    IF list_xattrs(x, ex, path) = None THEN None
    ELSE Some({try_from(k)[1] : k \in {k \in x[path] : try_from(k) # None}})

save_to_overwrite(x, ex, path, tag) ==
    IF list_xattrs(x, ex, path) = None
    THEN [ok |-> FALSE, err |-> "Other", x |-> x]
    ELSE [ok |-> TRUE, err |-> "", x |-> [x EXCEPT ![path] = @ \cup {hash(tag)}]]
\* Tag::save_to: TagExists when a listed tag equals it or the key is there
\* already (XATTR_CREATE), TagListFull when the file has no room for one more
\* attribute (errno 28, From<io::Error>)
save_to(x, ex, path, tag) ==
    IF list_tags(x, ex, path) = None
    THEN [ok |-> FALSE, err |-> "Other", x |-> x]
    ELSE IF \/ \E t \in list_tags(x, ex, path)[1] : TagEq(t, tag)
            \/ hash(tag) \in x[path]
    THEN [ok |-> FALSE, err |-> "TagExists", x |-> x]
    ELSE IF Filler \in x[path]
    THEN [ok |-> FALSE, err |-> "TagListFull", x |-> x]
    ELSE [ok |-> TRUE, err |-> "", x |-> [x EXCEPT ![path] = @ \cup {hash(tag)}]]

remove_from(x, ex, path, tag) ==
    IF list_xattrs(x, ex, path) = None
    THEN [ok |-> FALSE, err |-> "Other", x |-> x]
    ELSE IF hash(tag) \in x[path]
    THEN [ok |-> TRUE, err |-> "", x |-> [x EXCEPT ![path] = @ \ {hash(tag)}]]
    ELSE [ok |-> FALSE, err |-> "TagNotFound", x |-> x]

\* tag::clear_tags: every key under the namespace goes
clear_tags(x, ex, path) ==
    IF list_xattrs(x, ex, path) = None
    THEN [ok |-> FALSE, err |-> "Other", x |-> x]
    ELSE [ok |-> TRUE, err |-> "", x |-> [x EXCEPT ![path] = @ \cap {Filler}]]

\* ------------------------------------- paths and links (xattr/unix.rs)
\* the node a path names to a call that follows links, None when the path
\* or what it links to is not there
follow(l, ex, path) ==
    IF path \notin ex THEN None
    ELSE IF l[path] = None THEN Some(path)
    ELSE IF l[path][1] \in ex THEN Some(l[path][1])
    ELSE None

\* std::fs::metadata: the metadata of the node the path leads to, links
\* followed
metadata(l, ex, path) ==
    IF follow(l, ex, path) = None THEN None
    ELSE Some([is_symlink |-> l[follow(l, ex, path)[1]] # None])

\* is_symlink: false when the metadata cannot be read
is_symlink(l, ex, path) ==
    IF metadata(l, ex, path) = None THEN FALSE
    ELSE metadata(l, ex, path)[1].is_symlink

\* the node set_xattr, get_xattr, list_xattrs and remove_xattr reach: the
\* path's own node through the l-variant of the call when symlink is true,
\* the node the link leads to otherwise
node_of(l, ex, path) ==
    IF is_symlink(l, ex, path)
    THEN IF path \in ex THEN Some(path) ELSE None
    ELSE follow(l, ex, path)

\* a key of the codec that kept the whole Tag in the key, as files tagged
\* through it still carry: the base64 of the CBOR of the Tag
cbor_hash(tag) == [enc |-> "cbor", of |-> tag]

\* the layouts of links the runs start from: none, or one path a link to
\* another
LinkLayouts ==
    {[p \in Paths |-> None]} \cup
    {[p \in Paths |-> IF p = ab[1] THEN Some(ab[2]) ELSE None] :
        ab \in {ab \in Paths \X Paths : ab[1] # ab[2]}}

\* what a call answers when the path leads to no node
NoNode(x) == [ok |-> FALSE, err |-> "Other", x |-> x]

SaveTo ==
    \E p \in Paths, tag \in Tags :
        \E n \in {node_of(links, exists, p)} :
        \E d \in {IF n = None THEN NoNode(xattrs)
                   ELSE save_to(xattrs, exists, n[1], tag)} :
            /\ xattrs' = d.x
            /\ ret' = [op |-> "save_to", path |-> p, tag |-> tag,
                       val |-> [ok |-> d.ok, err |-> d.err]]
            /\ UNCHANGED <<tags, entries, minted, exists, disk, entries_events,
                           fs_events, watched, backend, iovars>>

RemoveFrom ==
    \E p \in Paths, tag \in Tags :
        \E n \in {node_of(links, exists, p)} :
        \E d \in {IF n = None THEN NoNode(xattrs)
                   ELSE remove_from(xattrs, exists, n[1], tag)} :
            /\ xattrs' = d.x
            /\ ret' = [op |-> "remove_from", path |-> p, tag |-> tag,
                       val |-> [ok |-> d.ok, err |-> d.err]]
            /\ UNCHANGED <<tags, entries, minted, exists, disk, entries_events,
                           fs_events, watched, backend, iovars>>

ClearTagsOf ==
    \E p \in Paths :
        \E n \in {node_of(links, exists, p)} :
        \E d \in {IF n = None THEN NoNode(xattrs)
                   ELSE clear_tags(xattrs, exists, n[1])} :
            /\ xattrs' = d.x
            /\ ret' = [op |-> "clear_tags", path |-> p,
                       val |-> [ok |-> d.ok, err |-> d.err]]
            /\ UNCHANGED <<tags, entries, minted, exists, disk, entries_events,
                           fs_events, watched, backend, iovars>>

ListTags ==
    \E p \in Paths :
        \E n \in {node_of(links, exists, p)} :
            /\ ret' = [op |-> "list_tags", path |-> p,
                       val |-> IF n = None THEN None
                               ELSE list_tags(xattrs, exists, n[1])]
            /\ UNCHANGED <<tags, entries, minted, exists, xattrs, disk,
                           entries_events, fs_events, watched, backend, iovars>>

\* a file arrives with a key the codec of the whole Tag wrote
TaggedBefore ==
    \E p \in exists, n \in Names, c \in RequestColors :
        /\ links[p] = None
        /\ cbor_hash(Tag(n, c)) \notin xattrs[p]
        /\ xattrs' = [xattrs EXCEPT ![p] = @ \cup {cbor_hash(Tag(n, c))}]
        /\ ret' = [op |-> "tagged_before", path |-> p, val |-> None]
        /\ UNCHANGED <<tags, entries, minted, exists, disk, entries_events,
                       fs_events, watched, backend, iovars>>

\* a path is unlinked outside the program: a file goes with its attributes,
\* a link goes alone
Unlink ==
    \E p \in exists :
        /\ exists' = exists \ {p}
        /\ xattrs' = [xattrs EXCEPT ![p] = {}]
        /\ ret' = [op |-> "unlink", path |-> p, val |-> None]
        /\ UNCHANGED <<tags, entries, minted, disk, entries_events,
                       fs_events, watched, backend, iovars>>

\* ------------------------------- the two-call retrieval (xattr/unix.rs)
\* the attribute names of the file the retrievals read, in the order the
\* system lists them ("a" and "bc"), and the values another process may
\* give them: up to MaxValueLen bytes "x"
AttrNameSeq == <<(<<97>>), (<<98, 99>>)>>
AttrNames == {AttrNameSeq[i] : i \in DOMAIN AttrNameSeq}
AttrValues == {[i \in 1..n |-> 120] : n \in 0..MaxValueLen}

\* impl From<io::Error> for Error: ENODATA is os error 61, ERANGE is
\* neither of the codes the match knows
from_io_error(errno) == IF errno = "ENODATA" THEN "TagNotFound" ELSE "Other"

\* getxattr(2) as __getxattr calls it: size 0 asks for the length alone, a
\* buffer too small is ERANGE, else the value is copied whole
sys_getxattr(r, name, size) ==
    IF name \notin DOMAIN r THEN [ret |-> -1, errno |-> "ENODATA", data |-> <<>>]
    ELSE IF size = 0 THEN [ret |-> Len(r[name]), errno |-> "", data |-> <<>>]
    ELSE IF Len(r[name]) > size THEN [ret |-> -1, errno |-> "ERANGE", data |-> <<>>]
    ELSE [ret |-> Len(r[name]), errno |-> "", data |-> r[name]]

\* the name list the system holds for the file: every name, NUL after each
RECURSIVE list_bytes(_, _)
list_bytes(r, i) ==
    IF i > Len(AttrNameSeq) THEN <<>>
    ELSE (IF AttrNameSeq[i] \in DOMAIN r THEN AttrNameSeq[i] \o <<0>> ELSE <<>>)
         \o list_bytes(r, i + 1)

\* listxattr(2) as __listxattr calls it
sys_listxattr(r, size) ==
    IF size = 0 THEN [ret |-> Len(list_bytes(r, 1)), errno |-> "", data |-> <<>>]
    ELSE IF Len(list_bytes(r, 1)) > size THEN [ret |-> -1, errno |-> "ERANGE", data |-> <<>>]
    ELSE [ret |-> Len(list_bytes(r, 1)), errno |-> "", data |-> list_bytes(r, 1)]

\* parse_xattrs: a key for every NUL, the bytes since the NUL before it
RECURSIVE parse_xattrs(_, _)
parse_xattrs(input, start) ==
    IF \A i \in start..Len(input) : input[i] # 0 THEN <<>>
    ELSE LET i == CHOOSE j \in start..Len(input) :
                      input[j] = 0 /\ \A h \in start..(j - 1) : input[h] # 0
         IN <<SubSeq(input, start, i - 1)>> \o parse_xattrs(input, i + 1)

Ok(data) == [ok |-> TRUE, err |-> "", data |-> data]
Err(e) == [ok |-> FALSE, err |-> e, data |-> <<>>]

fetched_unchecked(k, size) ==
    IF k.ret = -1 THEN Err(from_io_error(k.errno)) ELSE Ok(k.data)
\* what _get_xattr and list_xattrs_raw make of the second call's return: the
\* system's error, AttrsChanged when the count is not the size asked for,
\* else the buffer
fetched(k, size) ==
    IF k.ret = -1 THEN Err(from_io_error(k.errno))
    ELSE IF k.ret # size THEN Err("AttrsChanged")
    ELSE Ok(k.data)

\* get_xattr_size, get_xattrs_list_size: the first call's return
sized(k) == IF k.ret = -1 THEN Err(from_io_error(k.errno)) ELSE Ok(k.ret)

\* the position of a retrieval between two system calls
Pending(pc, list, name, size, rest, acc) ==
    [pc |-> pc, list |-> list, name |-> name, size |-> size, rest |-> rest, acc |-> acc]

\* get_xattr: the size query of _get_xattr
GetXattr ==
    /\ pending = None
    /\ \E name \in AttrNames :
        \E q \in {sized(sys_getxattr(raw, name, 0))} :
            /\ pending' = IF q.ok
                          THEN Some(Pending("get_fetch", FALSE, name, q.data, <<>>, <<>>))
                          ELSE None
            /\ ret' = [op |-> "get_xattr_size", val |-> IF q.ok THEN None ELSE Some(q)]
    /\ UNCHANGED <<tags, entries, minted, exists, xattrs, disk, entries_events,
                   fs_events, watched, backend, procvars, links, raw, conn>>

\* list_xattrs: the size query of list_xattrs_raw
ListXattrs ==
    /\ pending = None
    /\ \E q \in {sized(sys_listxattr(raw, 0))} :
            /\ pending' = Some(Pending("list_fetch", TRUE, <<>>, q.data, <<>>, <<>>))
            /\ ret' = [op |-> "list_xattrs_size", val |-> None]
    /\ UNCHANGED <<tags, entries, minted, exists, xattrs, disk, entries_events,
                   fs_events, watched, backend, procvars, links, raw, conn>>

\* the size query of _get_xattr for the next key of _list_xattrs' loop
NextKeySize ==
    /\ pending # None
    /\ pending[1].pc = "get_size"
    /\ \E q \in {sized(sys_getxattr(raw, pending[1].name, 0))} :
            /\ pending' = IF q.ok
                          THEN Some([pending[1] EXCEPT !.pc = "get_fetch", !.size = q.data])
                          ELSE None
            /\ ret' = [op |-> "get_xattr_size", val |-> IF q.ok THEN None ELSE Some(q)]
    /\ UNCHANGED <<tags, entries, minted, exists, xattrs, disk, entries_events,
                   fs_events, watched, backend, procvars, links, raw, conn>>

\* the second call of _get_xattr: the value into a buffer of the size asked
FetchValue ==
    /\ pending # None
    /\ pending[1].pc = "get_fetch"
    /\ \E w \in {pending[1]} :
       \E f \in {fetched(sys_getxattr(raw, w.name, w.size), w.size)} :
       \E acc \in {Append(w.acc, <<w.name, f.data>>)} :
            /\ pending' = IF f.ok /\ w.list /\ w.rest # <<>>
                          THEN Some(Pending("get_size", TRUE, Head(w.rest), 0,
                                            Tail(w.rest), acc))
                          ELSE None
            /\ ret' = [op |-> "fetch", call |-> "get_xattr", fetch |-> f,
                       val |-> IF ~f.ok THEN Some(f)
                               ELSE IF ~w.list THEN Some(f)
                               ELSE IF w.rest = <<>> THEN Some(Ok(acc))
                               ELSE None]
    /\ UNCHANGED <<tags, entries, minted, exists, xattrs, disk, entries_events,
                   fs_events, watched, backend, procvars, links, raw, conn>>

\* the second call of list_xattrs_raw, and parse_xattrs on its buffer
FetchList ==
    /\ pending # None
    /\ pending[1].pc = "list_fetch"
    /\ \E w \in {pending[1]} :
       \E f \in {fetched(sys_listxattr(raw, w.size), w.size)} :
       \E keys \in {parse_xattrs(f.data, 1)} :
            /\ pending' = IF f.ok /\ keys # <<>>
                          THEN Some(Pending("get_size", TRUE, Head(keys), 0,
                                            Tail(keys), <<>>))
                          ELSE None
            /\ ret' = [op |-> "fetch", call |-> "list_xattrs", fetch |-> f,
                       val |-> IF ~f.ok THEN Some(f)
                               ELSE IF keys = <<>> THEN Some(Ok(<<>>))
                               ELSE None]
    /\ UNCHANGED <<tags, entries, minted, exists, xattrs, disk, entries_events,
                   fs_events, watched, backend, procvars, links, raw, conn>>

\* another process sets or removes an attribute of the file
OtherProcess ==
    \E name \in AttrNames :
        /\ \/ \E v \in AttrValues :
                 /\ name \in DOMAIN raw => raw[name] # v
                 /\ raw' = [n \in DOMAIN raw \cup {name} |->
                               IF n = name THEN v ELSE raw[n]]
           \/ /\ name \in DOMAIN raw
              /\ raw' = [n \in DOMAIN raw \ {name} |-> raw[n]]
        /\ ret' = [op |-> "other_process", val |-> None]
        /\ UNCHANGED <<tags, entries, minted, exists, xattrs, disk, entries_events,
                       fs_events, watched, backend, procvars, links, pending, conn>>

\* --------------------------------------------- the socket (wutag_ipc)
\* the strings a message carries, as their bytes: "" and "t"
WireStrings == {<<>>, <<116>>}
WireLists == UNION {[1..n -> WireStrings] : n \in 0..MaxWireTags}

\* enum Request: Ping, ClearCache and ClearTags { tags } stand for the unit
\* variants and the variants with fields
Requests ==
    {[variant |-> "Ping"], [variant |-> "ClearCache"]} \cup
    {[variant |-> "ClearTags", tags |-> l] : l \in WireLists}

\* enum Response: Ping(PayloadResult<(), String>) and
\* ClearTags(PayloadResult<(), Vec<String>>)
Responses ==
    {[variant |-> "Ping", result |-> "Ok"], [variant |-> "ClearTags", result |-> "Ok"]} \cup
    {[variant |-> "Ping", result |-> "Error", error |-> e] : e \in WireStrings} \cup
    {[variant |-> "ClearTags", result |-> "Error", error |-> l] : l \in WireLists}

\* the names serde writes, as their bytes
Ident(name) ==
    CASE name = "Ping" -> <<80, 105, 110, 103>>
      [] name = "ClearCache" -> <<67, 108, 101, 97, 114, 67, 97, 99, 104, 101>>
      [] name = "ClearTags" -> <<67, 108, 101, 97, 114, 84, 97, 103, 115>>
      [] name = "tags" -> <<116, 97, 103, 115>>
      [] name = "Ok" -> <<79, 107>>
      [] name = "Error" -> <<69, 114, 114, 111, 114>>

\* serde_cbor's items: a text string, an array, a map of one pair, null
cbor_text(str) == <<96 + Len(str)>> \o str
RECURSIVE cbor_texts(_)
cbor_texts(l) == IF l = <<>> THEN <<>> ELSE cbor_text(Head(l)) \o cbor_texts(Tail(l))
cbor_array(l) == <<128 + Len(l)>> \o cbor_texts(l)
cbor_map1(key, item) == <<161>> \o cbor_text(key) \o item
cbor_null == <<246>>

\* Payload::to_payload: serde_cbor::to_vec; a unit variant is its name, a
\* variant with content a map from its name to the content
to_payload(v) ==
    IF "result" \in DOMAIN v
    THEN cbor_map1(Ident(v.variant),
             IF v.result = "Ok" THEN cbor_map1(Ident("Ok"), cbor_null)
             ELSE cbor_map1(Ident("Error"),
                      IF v.variant = "Ping" THEN cbor_text(v.error)
                      ELSE cbor_array(v.error)))
    ELSE IF v.variant = "ClearTags"
    THEN cbor_map1(Ident("ClearTags"), cbor_map1(Ident("tags"), cbor_array(v.tags)))
    ELSE cbor_text(Ident(v.variant))

\* Payload::from_payload: serde_cbor::from_slice gives the value of type T
\* whose item the bytes are, and fails on any other bytes
from_payload(T, bytes) ==
    IF \E v \in T : to_payload(v) = bytes
    THEN Ok(CHOOSE v \in T : to_payload(v) = bytes)
    ELSE Err("Deserialize")

\* u64::to_be_bytes of a length
to_be_bytes(n) ==
    <<0, 0, 0, 0, 0, (n \div 65536) % 256, (n \div 256) % 256, n % 256>>

\* u64::from_be_bytes of a size below 2^24, the sizes the streams here can
\* hold; None for the larger ones
from_be_bytes(b) ==
    IF \E i \in 1..5 : b[i] # 0 THEN None
    ELSE Some(b[6] * 65536 + b[7] * 256 + b[8])

\* REQUEST_SEPARATOR: the u8 that read_response scans for; the crate's
\* sources do not hold its definition, so it is any of: the byte the length
\* prefix is made of, a byte no frame here holds
Separators == {0, 10}

\* BufRead::read_until: the bytes up to and with the first delimiter, all of
\* them when there is none
read_until(stream, sep) ==
    IF \A i \in DOMAIN stream : stream[i] # sep THEN stream
    ELSE SubSeq(stream, 1, CHOOSE i \in DOMAIN stream :
                              stream[i] = sep /\ \A j \in 1..(i - 1) : stream[j] # sep)

\* a connection: the bytes under way to the server and to the client, what
\* each side passed to its writer, and where the server is with it
Connection(writer, request, c2s) ==
    [writer |-> writer, request |-> request, c2s |-> c2s, s2c |-> <<>>,
     response |-> None, accepted |-> FALSE, server_closed |-> FALSE]

\* IpcClient::request up to read_response: connect and send_request, which
\* writes the payload
Request ==
    /\ conn = None
    /\ \E r \in Requests :
        /\ conn' = Some(Connection("send_request", r, to_payload(r)))
        /\ ret' = [op |-> "send_request", val |-> None]
    /\ UNCHANGED <<tags, entries, minted, exists, xattrs, disk, entries_events,
                   fs_events, watched, backend, procvars, links, raw, pending>>

\* Payload::send on a new connection: send_payload writes the length and the
\* payload
PayloadSend ==
    /\ conn = None
    /\ \E r \in Requests :
        /\ conn' = Some(Connection("send_payload", r,
                            to_be_bytes(Len(to_payload(r))) \o to_payload(r)))
        /\ ret' = [op |-> "send_payload", val |-> None]
    /\ UNCHANGED <<tags, entries, minted, exists, xattrs, disk, entries_events,
                   fs_events, watched, backend, procvars, links, raw, pending>>

\* IpcServer::accept_request: read_exact of 8 bytes and of the size they
\* give wait for the bytes while the client keeps the connection; a size of
\* 2^56 or more ends the daemon in vec![0; size]
AcceptRequest ==
    /\ conn # None
    /\ ~conn[1].accepted
    /\ ~conn[1].server_closed
    /\ Len(conn[1].c2s) >= 8
    /\ \E size \in {from_be_bytes(SubSeq(conn[1].c2s, 1, 8))} :
       \E rest \in {SubSeq(conn[1].c2s, 9, Len(conn[1].c2s))} :
        \/ /\ size = None
           /\ conn[1].c2s[1] # 0
           /\ conn' = None
           /\ ret' = [op |-> "accept_request", val |-> Err("abort")]
        \/ /\ size # None
           /\ Len(rest) >= size[1]
           /\ \E q \in {from_payload(Requests, SubSeq(rest, 1, size[1]))} :
                /\ conn' = IF q.ok
                           THEN Some([conn[1] EXCEPT
                                        !.c2s = SubSeq(rest, size[1] + 1, Len(rest)),
                                        !.accepted = TRUE])
                           ELSE None
                /\ ret' = [op |-> "accept_request", val |-> q]
    /\ UNCHANGED <<tags, entries, minted, exists, xattrs, disk, entries_events,
                   fs_events, watched, backend, procvars, links, raw, pending>>

\* IpcServer::send_response: the length, the payload, and the connection
\* popped from conns is dropped
SendResponse ==
    /\ conn # None
    /\ conn[1].accepted
    /\ \E r \in Responses :
        /\ conn' = Some([conn[1] EXCEPT
                            !.s2c = to_be_bytes(Len(to_payload(r))) \o to_payload(r),
                            !.response = Some(r),
                            !.accepted = FALSE,
                            !.server_closed = TRUE])
        /\ ret' = [op |-> "send_response", val |-> Ok(<<>>)]
    /\ UNCHANGED <<tags, entries, minted, exists, xattrs, disk, entries_events,
                   fs_events, watched, backend, procvars, links, raw, pending>>

\* IpcClient::read_response: read_until returns at the delimiter or at the
\* end of the stream, Response::from_payload reads what it gave
ReadResponse ==
    /\ conn # None
    /\ conn[1].server_closed
    /\ \E sep \in Separators :
        /\ ret' = [op |-> "read_response",
                   val |-> from_payload(Responses, read_until(conn[1].s2c, sep))]
        /\ conn' = None
    /\ UNCHANGED <<tags, entries, minted, exists, xattrs, disk, entries_events,
                   fs_events, watched, backend, procvars, links, raw, pending>>

\* Payload::read by the client: read_payload reads the length and that many
\* bytes
PayloadRead ==
    /\ conn # None
    /\ conn[1].server_closed
    /\ \E size \in {from_be_bytes(SubSeq(conn[1].s2c, 1, 8))} :
        /\ ret' = [op |-> "read_payload",
                   val |-> from_payload(Responses, SubSeq(conn[1].s2c, 9, 8 + size[1]))]
        /\ conn' = None
    /\ UNCHANGED <<tags, entries, minted, exists, xattrs, disk, entries_events,
                   fs_events, watched, backend, procvars, links, raw, pending>>

\* ------------------------------------------------ WutagDaemon (daemon.rs)
\* a handler's working state: the registry under the write lock, the
\* attributes, the error strings and the paths of the delta
Work(r, x) == [reg |-> r, x |-> x, errors |-> <<>>, delta |-> <<>>]
Response(kind, errors) == [kind |-> kind, ok |-> errors = <<>>, errors |-> errors]

\* `for tag in &tags` of tag_files and copy_tags
RECURSIVE tag_each(_, _, _, _, _)
tag_each(w, ex, file, id, tgs) ==
    IF tgs = <<>> THEN w
    ELSE LET tag == Head(tgs)
             s == save_to(w.x, ex, file, tag)
         IN tag_each(IF s.ok
                     THEN [w EXCEPT !.x = s.x, !.reg = tag_entry(w.reg, tag, id).reg]
                     ELSE [w EXCEPT !.errors = Append(@, <<file, tag.name, s.err>>)],
                     ex, file, id, Tail(tgs))

RECURSIVE tag_files_loop_keeps(_, _, _, _, _)
tag_files_loop_keeps(w, ex, files, tgs, nows) ==
    IF files = <<>> THEN w
    ELSE LET file == Head(files)
             a == add_or_update_entry(w.reg, file, Head(nows))
             added == a.val[2]
             c == clear_tags(w.x, ex, file)
             w1 == [w EXCEPT !.reg = a.reg,
                             !.x = IF added THEN c.x ELSE @,
                             !.delta = IF added THEN Append(@, file) ELSE @]
         IN tag_files_loop_keeps(tag_each(w1, ex, file, a.val[1], tgs), ex,
                                 Tail(files), tgs, Tail(nows))

\* `for file in &files` of tag_files (and `for path in target` of copy_tags)
RECURSIVE tag_files_loop(_, _, _, _, _)
tag_files_loop(w, ex, files, tgs, nows) ==
    IF files = <<>> THEN w
    ELSE LET file == Head(files)
             a == add_or_update_entry(w.reg, file, Head(nows))
             id == a.val[1]
             added == a.val[2]
             c == clear_tags(w.x, ex, file)
             w1 == [w EXCEPT !.reg = a.reg,
                             !.x = IF added THEN c.x ELSE @,
                             !.delta = IF added THEN Append(@, file) ELSE @]
             w2 == tag_each(w1, ex, file, id, tgs)
             w3 == IF list_entry_tags(w2.reg.tags, id) = None
                   THEN [w2 EXCEPT !.reg = remove_entry(@, id).reg]
                   ELSE w2
         IN tag_files_loop(w3, ex, Tail(files), tgs, Tail(nows))

\* `for tag in &tags` of untag_files
RECURSIVE untag_each(_, _, _, _, _)
untag_each(w, ex, file, id, tgs) ==
    IF tgs = <<>> THEN w
    ELSE LET tag == Head(tgs)
             s == remove_from(w.x, ex, file, tag)
             u == untag_entry(w.reg, tag, id)
         IN untag_each(IF ~s.ok
                       THEN [w EXCEPT !.errors = Append(@, <<file, tag.name, s.err>>)]
                       ELSE [w EXCEPT !.x = s.x, !.reg = u.reg,
                                      !.delta = IF u.val # None THEN Append(@, u.val[1]) ELSE @],
                       ex, file, id, Tail(tgs))

RECURSIVE untag_files_loop(_, _, _, _)
untag_files_loop(w, ex, files, tgs) ==
    IF files = <<>> THEN w
    ELSE LET file == Head(files)
             found == find_entry(w.reg.entries, file)
         IN untag_files_loop(IF found # None
                             THEN untag_each(w, ex, file, found[1], tgs)
                             ELSE w,
                             ex, Tail(files), tgs)

RECURSIVE clear_files_loop(_, _, _)
clear_files_loop(w, ex, files) ==
    IF files = <<>> THEN w
    ELSE LET file == Head(files)
             found == find_entry(w.reg.entries, file)
             c == clear_tags(w.x, ex, file)
         IN clear_files_loop(IF found = None THEN w
                             ELSE IF ~c.ok
                             THEN [w EXCEPT !.errors = Append(@, <<file, 0, c.err>>)]
                             ELSE [w EXCEPT !.x = c.x, !.reg = clear_entry(@, found[1])],
                             ex, Tail(files))

\* `for entry in &cleared` of clear_tags: a failed remove_from is only logged
RECURSIVE untag_cleared(_, _, _, _)
untag_cleared(x, ex, tag, cleared) ==
    IF cleared = {} THEN x
    ELSE LET path == CHOOSE q \in cleared : TRUE
         IN untag_cleared(remove_from(x, ex, path, tag).x, ex, tag, cleared \ {path})

\* `for tag in &tags` of clear_tags; Tag::random gives the name a color
RECURSIVE clear_tags_loop(_, _, _, _)
clear_tags_loop(w, ex, names, colors) ==
    IF names = <<>> THEN w
    ELSE LET tag == Tag(Head(names), Head(colors))
             c == clear_tag(w.reg, tag)
         IN clear_tags_loop(IF c.val = None THEN w
                            ELSE [w EXCEPT !.reg = c.reg,
                                           !.x = untag_cleared(@, ex, tag, c.val[1]),
                                           !.delta = @ \o SetToSeq(c.val[1])],
                            ex, Tail(names), Tail(colors))

\* what a handler leaves behind: the registry, the attributes, the file that
\* save() wrote (None when it did not save), the delta it pushed and its response
Done(w, saved, event, val) ==
    [reg |-> w.reg, x |-> w.x, saved |-> IF saved THEN Some(save(w.reg)) ELSE None,
     event |-> event, val |-> val]
EntryEvent(kind, paths) == [kind |-> kind, paths |-> paths]

tag_files(r, x, ex, files, tgs, nows) ==
    IF files = <<>> \/ tgs = <<>>
    THEN Done(Work(r, x), FALSE, None, Response("TagFiles", <<"empty">>))
    ELSE LET w == tag_files_loop(Work(r, x), ex, files, tgs, nows)
         IN Done(w, TRUE, IF w.delta # <<>> THEN Some(EntryEvent("Add", w.delta)) ELSE None,
                 Response("TagFiles", w.errors))

untag_files(r, x, ex, files, tgs) ==
    IF files = <<>> \/ tgs = <<>>
    THEN Done(Work(r, x), FALSE, None, Response("UntagFiles", <<"empty">>))
    ELSE LET w == untag_files_loop(Work(r, x), ex, files, tgs)
         IN Done(w, TRUE, IF w.delta # <<>> THEN Some(EntryEvent("Remove", w.delta)) ELSE None,
                 Response("UntagFiles", w.errors))

edit_tag(r, x, name, color) ==
    IF get_tag(r.tags, name) = None
    THEN Done(Work(r, x), FALSE, None, Response("EditTag", <<"missing">>))
    ELSE Done(Work(update_tag_color(r, name, color).reg, x), TRUE, None,
              Response("EditTag", <<>>))

copy_tags(r, x, ex, source, target, nows) ==
    LET listed == list_tags(x, ex, source)
    IN IF listed = None
       THEN Done(Work(r, x), FALSE, None, Response("CopyTags", <<"source">>))
       ELSE IF listed[1] = {}
       THEN Done(Work(r, x), FALSE, None, Response("CopyTags", <<>>))
       ELSE LET w == tag_files_loop(Work(r, x), ex, target,
                                    TagsToSeq(listed[1]), nows)
            IN Done(w, TRUE,
                    IF w.delta # <<>> THEN Some(EntryEvent("Add", w.delta)) ELSE None,
                    Response("CopyTags", [i \in DOMAIN w.errors |-> w.errors[i][3]]))

clear_files(r, x, ex, files) ==
    IF files = <<>>
    THEN Done(Work(r, x), FALSE, None, Response("ClearFiles", <<"empty">>))
    ELSE LET w == clear_files_loop(Work(r, x), ex, files)
         IN Done(w, TRUE, Some(EntryEvent("Remove", files)), Response("ClearFiles", w.errors))

\* WutagDaemon::clear_tags answers with the ClearFiles variant
daemon_clear_tags(r, x, ex, names, colors) ==
    IF names = <<>>
    THEN Done(Work(r, x), FALSE, None, Response("ClearTags", <<"empty">>))
    ELSE LET w == clear_tags_loop(Work(r, x), ex, names, colors)
         IN Done(w, TRUE, IF w.delta # <<>> THEN Some(EntryEvent("Remove", w.delta)) ELSE None,
                 Response("ClearFiles", <<>>))

clean_cache(r, x) == Done(Work(clear(r), x), TRUE, None, Response("ClearCache", <<>>))

\* ------------------------------------- the watch loops (notifyd, inotifyd)
\* add_watch_entry: the backend refuses a path that is no file
add_watch_entry(wt, ex, path) == IF path \in ex THEN wt \cup {path} ELSE wt
remove_watch_entry(wt, path) == wt \ {path}

RECURSIVE watch_each(_, _, _, _)
watch_each(wt, ex, kind, paths) ==
    IF paths = <<>> THEN wt
    ELSE watch_each(IF kind = "Add" THEN add_watch_entry(wt, ex, Head(paths))
                    ELSE remove_watch_entry(wt, Head(paths)),
                    ex, kind, Tail(paths))

\* handle_entries_events: the deltas taken from the queue, one by one
RECURSIVE handle_entries_events(_, _, _)
handle_entries_events(wt, ex, events) ==
    IF events = <<>> THEN wt
    ELSE handle_entries_events(watch_each(wt, ex, Head(events).kind, Head(events).paths),
                               ex, Tail(events))

\* NotifyDaemon::handle_notify_events: clear_entry for every path reported
RECURSIVE handle_notify_events(_, _)
handle_notify_events(r, paths) ==
    IF paths = <<>> THEN r
    ELSE LET found == find_entry(r.entries, Head(paths))
         IN handle_notify_events(IF found # None THEN clear_entry(r, found[1]) ELSE r,
                                 Tail(paths))

\* InotifyDaemon::handle_event: the descriptor is dropped and the entry of its
\* path removed; an event whose descriptor is unknown is an error
handle_event(r, wt, path) ==
    IF path \notin wt THEN [reg |-> r, watched |-> wt]
    ELSE LET found == find_entry(r.entries, path)
         IN [reg |-> IF found # None THEN remove_entry(r, found[1]).reg ELSE r,
             watched |-> remove_watch_entry(wt, path)]

\* the paths of the registry's entries, in the order list_entries gives
list_entries(e) == SetToSeq({e[i] : i \in DOMAIN e})

\* what add_watch_entry returns for a path: its error, when the path is not
\* there, is the io error NotFound under the variant AddWatchEntry
watch_error(ex, path) ==
    IF path \in ex THEN None
    ELSE Some([variant |-> "AddWatchEntry", io |-> "NotFound"])

\* `for entry in to_remove`: find_entry and remove_entry
RECURSIVE remove_each(_, _)
remove_each(r, paths) ==
    IF paths = <<>> THEN r
    ELSE LET found == find_entry(r.entries, Head(paths))
         IN remove_each(IF found # None THEN remove_entry(r, found[1]).reg ELSE r,
                        Tail(paths))

\* NotifyDaemon::rebuild_watch_entries: an entry goes to to_remove when the
\* error of its watch is NotFound under the variant NotifyWatcherInit
rebuild_watch_entries(r, ex) ==
    LET paths == list_entries(r.entries)
        failed(p) == /\ watch_error(ex, p) # None
                     /\ watch_error(ex, p)[1].variant = "NotifyWatcherInit"
                     /\ watch_error(ex, p)[1].io = "NotFound"
        to_remove == SelectSeq(paths, failed)
    IN [reg |-> remove_each(r, to_remove),
        watched |-> watch_each({}, ex, "Add", paths)]

\* InotifyDaemon::rebuild_watch_descriptors
rebuild_watch_descriptors(r, ex) ==
    [reg |-> r, watched |-> watch_each({}, ex, "Add", list_entries(r.entries))]

\* ------------------------------------------------------ the daemon's steps
\* the lists of files and of tags a request carries, the clock readings of one
\* handler run
RequestTags == {Tag(n, c) : n \in Names, c \in RequestColors}
FileLists == {f \in UNION {[1..n -> Files] : n \in 0..MaxFiles} :
                 \A i, j \in DOMAIN f : i # j => f[i] # f[j]}
TagLists == {t \in UNION {[1..n -> RequestTags] : n \in 0..MaxTags} :
                \A i, j \in DOMAIN t : i # j => t[i].name # t[j].name}
ClearLists == {t \in UNION {[1..n -> Names] : n \in 0..MaxTags} :
                  \A i, j \in DOMAIN t : i # j => t[i] # t[j]}

\* push_event, bounded by the room the queue has in the model
Pushed(event) == IF event = None THEN entries_events ELSE Append(entries_events, event[1])
Room(event) == event = None \/ Len(entries_events) < MaxQueue

TagFiles ==
    \E files \in FileLists, tgs \in TagLists :
        \E nows \in [DOMAIN files -> Clock] :
            \E d \in {tag_files(Reg, xattrs, exists, files, tgs, nows)} :
               /\ Room(d.event)
               /\ tags' = d.reg.tags
               /\ entries' = d.reg.entries
               /\ xattrs' = d.x
               /\ disk' = IF d.saved # None THEN d.saved ELSE disk
               /\ entries_events' = Pushed(d.event)
               /\ ret' = [op |-> "TagFiles", val |-> d.val]
               /\ UNCHANGED <<minted, exists, fs_events, watched, backend, iovars>>

UntagFiles ==
    \E files \in FileLists, tgs \in TagLists :
        \E d \in {untag_files(Reg, xattrs, exists, files, tgs)} :
           /\ Room(d.event)
           /\ tags' = d.reg.tags
           /\ entries' = d.reg.entries
           /\ xattrs' = d.x
           /\ disk' = IF d.saved # None THEN d.saved ELSE disk
           /\ entries_events' = Pushed(d.event)
           /\ ret' = [op |-> "UntagFiles", val |-> d.val]
           /\ UNCHANGED <<minted, exists, fs_events, watched, backend, iovars>>

EditTag ==
    \E name \in Names, color \in RequestColors :
        \E d \in {edit_tag(Reg, xattrs, name, color)} :
           /\ tags' = d.reg.tags
           /\ entries' = d.reg.entries
           /\ disk' = IF d.saved # None THEN d.saved ELSE disk
           /\ ret' = [op |-> "EditTag", val |-> d.val]
           /\ UNCHANGED <<minted, exists, xattrs, entries_events, fs_events, watched, backend, iovars>>

CopyTags ==
    \E source \in Files, target \in FileLists :
        \E nows \in [DOMAIN target -> Clock] :
            \E d \in {copy_tags(Reg, xattrs, exists, source, target, nows)} :
               /\ Room(d.event)
               /\ tags' = d.reg.tags
               /\ entries' = d.reg.entries
               /\ xattrs' = d.x
               /\ disk' = IF d.saved # None THEN d.saved ELSE disk
               /\ entries_events' = Pushed(d.event)
               /\ ret' = [op |-> "CopyTags", val |-> d.val]
               /\ UNCHANGED <<minted, exists, fs_events, watched, backend, iovars>>

ClearFiles ==
    \E files \in FileLists :
        \E d \in {clear_files(Reg, xattrs, exists, files)} :
           /\ Room(d.event)
           /\ tags' = d.reg.tags
           /\ entries' = d.reg.entries
           /\ xattrs' = d.x
           /\ disk' = IF d.saved # None THEN d.saved ELSE disk
           /\ entries_events' = Pushed(d.event)
           /\ ret' = [op |-> "ClearFiles", val |-> d.val]
           /\ UNCHANGED <<minted, exists, fs_events, watched, backend, iovars>>

ClearTags ==
    \E names \in ClearLists :
        \E colors \in [DOMAIN names -> RequestColors] :
            \E d \in {daemon_clear_tags(Reg, xattrs, exists, names, colors)} :
               /\ Room(d.event)
               /\ tags' = d.reg.tags
               /\ entries' = d.reg.entries
               /\ xattrs' = d.x
               /\ disk' = IF d.saved # None THEN d.saved ELSE disk
               /\ entries_events' = Pushed(d.event)
               /\ ret' = [op |-> "ClearTags", val |-> d.val]
               /\ UNCHANGED <<minted, exists, fs_events, watched, backend, iovars>>

Ping ==
    /\ ret' = [op |-> "Ping", val |-> Response("Ping", <<>>)]
    /\ UNCHANGED <<tags, entries, minted, envvars>>

ClearCache ==
    \E d \in {clean_cache(Reg, xattrs)} :
       /\ tags' = d.reg.tags
       /\ entries' = d.reg.entries
       /\ disk' = d.saved
       /\ ret' = [op |-> "ClearCache", val |-> d.val]
       /\ UNCHANGED <<minted, exists, xattrs, entries_events, fs_events, watched, backend, iovars>>

\* the watch loop takes the deltas
HandleEntriesEvents ==
    /\ entries_events # <<>>
    /\ watched' = handle_entries_events(watched, exists, entries_events)
    /\ entries_events' = <<>>
    /\ ret' = [op |-> "handle_entries_events", val |-> None]
    /\ UNCHANGED <<tags, entries, minted, exists, xattrs, disk, fs_events, backend, iovars>>

\* notifyd: the removals reported are taken at once, the registry is saved
HandleNotifyEvents ==
    /\ backend = "notify"
    /\ fs_events # <<>>
    /\ \E r \in {handle_notify_events(Reg, fs_events)} :
          /\ tags' = r.tags
          /\ entries' = r.entries
          /\ disk' = Some(save(r))
    /\ fs_events' = <<>>
    /\ ret' = [op |-> "handle_notify_events", val |-> None]
    /\ UNCHANGED <<minted, exists, xattrs, entries_events, watched, backend, iovars>>

\* inotifyd: one event read; nothing is saved
HandleEvent ==
    /\ backend = "inotify"
    /\ fs_events # <<>>
    /\ \E h \in {handle_event(Reg, watched, Head(fs_events))} :
          /\ tags' = h.reg.tags
          /\ entries' = h.reg.entries
          /\ watched' = h.watched
    /\ fs_events' = Tail(fs_events)
    /\ ret' = [op |-> "handle_event", val |-> None]
    /\ UNCHANGED <<minted, exists, xattrs, disk, entries_events, backend, iovars>>

\* the process ends and starts again: REGISTRY is loaded from the file, the
\* queues and the watches are new, the watches are rebuilt from the entries
Startup ==
    /\ \E b \in {IF backend = "notify"
                THEN rebuild_watch_entries(load_or_new(disk), exists)
                ELSE rebuild_watch_descriptors(load_or_new(disk), exists)} :
          /\ tags' = b.reg.tags
          /\ entries' = b.reg.entries
          /\ watched' = b.watched
          /\ disk' = IF backend = "notify" THEN Some(save(b.reg)) ELSE disk
    /\ entries_events' = <<>>
    /\ fs_events' = <<>>
    /\ ret' = [op |-> "main", val |-> None]
    /\ UNCHANGED <<minted, exists, xattrs, backend, iovars>>

\* the file system outside the daemon: a file is deleted, its attributes go
\* with it, the backend reports the removal of a watched path (notify's
\* watcher forgets the path, inotifyd keeps its descriptor until handle_event)
DeleteFile ==
    \E p \in exists :
        /\ p \in watched => Len(fs_events) < MaxQueue
        /\ exists' = exists \ {p}
        /\ xattrs' = [xattrs EXCEPT ![p] = {}]
        /\ fs_events' = IF p \in watched THEN Append(fs_events, p) ELSE fs_events
        /\ watched' = IF backend = "notify" THEN watched \ {p} ELSE watched
        /\ UNCHANGED <<tags, entries, minted, ret, disk, entries_events, backend, iovars>>

CreateFile ==
    \E p \in Files \ exists :
        /\ exists' = exists \cup {p}
        /\ UNCHANGED <<tags, entries, minted, ret, xattrs, disk, entries_events,
                       fs_events, watched, backend, iovars>>

Init ==
    /\ backend \in {"notify", "inotify"}
    /\ tags = EmptyMap
    /\ entries = EmptyMap
    /\ minted = {}
    /\ ret = [op |-> "main", val |-> None]
    /\ exists = Files
    /\ xattrs = [p \in Paths |-> {}]
    /\ disk = IF backend = "notify" THEN Some(save(Registry(EmptyMap, EmptyMap))) ELSE None
    /\ entries_events = <<>>
    /\ fs_events = <<>>
    /\ watched = {}
    /\ links = [p \in Paths |-> None]
    /\ raw = <<>>
    /\ pending = None
    /\ conn = None
    /\ backlog = <<>>
    /\ conns = <<>>
    /\ h1 = [pc |-> "accept"]
    /\ h2 = [pc |-> "poll"]
    /\ lock = "free"
    /\ alive = TRUE

Next ==
    \/ TagFiles
    \/ UntagFiles
    \/ EditTag
    \/ CopyTags
    \/ ClearFiles
    \/ ClearTags
    \/ Ping
    \/ ClearCache
    \/ HandleEntriesEvents
    \/ HandleNotifyEvents
    \/ HandleEvent
    \/ Startup
    \/ DeleteFile
    \/ CreateFile

Spec == Init /\ [][Next]_vars

\* ------------------------------------------------- colors (color.rs)
\* a string is the sequence of its bytes; the bytes the inputs are made of:
\* '1', 'A', 'f' and, no hex digit, 'g'
MaxColorLen == 7
ColorChars == {49, 65, 102, 103}
ColorPrefixes == {<<>>, <<48, 120>>, <<35>>}
ColorStrings ==
    {pre \o body : pre \in ColorPrefixes,
                   body \in UNION {[1..n -> ColorChars] : n \in 0..MaxColorLen}}

\* u8 | u8
RECURSIVE BitOr(_, _)
BitOr(a, b) ==
    IF a = 0 THEN b
    ELSE IF b = 0 THEN a
    ELSE (IF a % 2 = 1 \/ b % 2 = 1 THEN 1 ELSE 0) + 2 * BitOr(a \div 2, b \div 2)

hex_val(ch) ==
    IF ch >= 48 /\ ch <= 57 THEN ch - 48
    ELSE IF ch >= 65 /\ ch <= 70 THEN ch - 55
    ELSE IF ch >= 97 /\ ch <= 102 THEN ch - 87
    ELSE 0

hex_chars_to_u8(c0, c1) == BitOr((BitOr(0, hex_val(c0)) * 16) % 256, hex_val(c1))

\* parse_hex: the first three chunks of two bytes; a chunk of one byte makes
\* arr[1] panic
parse_hex(color) ==
    IF Len(color) < 5 THEN None
    ELSE IF Len(color) = 5 THEN Some("panic")
    ELSE Some(<<hex_chars_to_u8(color[1], color[2]),
                hex_chars_to_u8(color[3], color[4]),
                hex_chars_to_u8(color[5], color[6])>>)

\* str::strip_prefix
strip_prefix(str, prefix) ==
    IF Len(str) >= Len(prefix) /\ SubSeq(str, 1, Len(prefix)) = prefix
    THEN Some(SubSeq(str, Len(prefix) + 1, Len(str)))
    ELSE None

parse_color(color) ==
    LET if_6(c) == IF Len(c) = 6 THEN Some(c) ELSE None
        result == IF strip_prefix(color, <<48, 120>>) # None
                  THEN if_6(strip_prefix(color, <<48, 120>>)[1])
                  ELSE IF strip_prefix(color, <<35>>) # None
                  THEN if_6(strip_prefix(color, <<35>>)[1])
                  ELSE if_6(color)
    IN IF result # None /\ parse_hex(result[1]) # None
       THEN [ok |-> TRUE, rgb |-> parse_hex(result[1])[1]]
       ELSE [ok |-> FALSE, rgb |-> "InvalidColor"]

ParseColor ==
    /\ ret.op = "main"
    /\ ret' = [op |-> "parse_color", val |-> parse_color(raw)]
    /\ UNCHANGED <<tags, entries, minted, exists, xattrs, disk, entries_events,
                   fs_events, watched, backend, links, raw, pending, conn, procvars>>

InitColor ==
    /\ tags = EmptyMap
    /\ entries = EmptyMap
    /\ minted = {}
    /\ ret = [op |-> "main", val |-> None]
    /\ exists = Paths
    /\ xattrs = [p \in Paths |-> {}]
    /\ disk = None
    /\ entries_events = <<>>
    /\ fs_events = <<>>
    /\ watched = {}
    /\ backend = "notify"
    /\ links = [p \in Paths |-> None]
    /\ raw \in ColorStrings
    /\ pending = None
    /\ conn = None
    /\ backlog = <<>>
    /\ conns = <<>>
    /\ h1 = [pc |-> "accept"]
    /\ h2 = [pc |-> "poll"]
    /\ lock = "free"
    /\ alive = TRUE

NextColor == ParseColor

SpecColor == InitColor /\ [][NextColor]_vars

\* the daemon left alone with its files: requests and the watch loop, nothing
\* deleted, created or restarted
NextRequests ==
    \/ TagFiles
    \/ UntagFiles
    \/ EditTag
    \/ CopyTags
    \/ ClearFiles
    \/ ClearTags
    \/ Ping
    \/ ClearCache
    \/ HandleEntriesEvents

SpecRequests == Init /\ [][NextRequests]_vars

\* ------------------------------- the connection thread (daemon.rs, server.rs)
\* the tag name of the registry that a string of the wire stands for
name_of(str) == Len(str) + 1

\* what a client may leave on its connection: a request framed with its
\* length (send_payload), a request alone (IpcClient::send_request), a frame
\* whose payload is no request, nothing at all; and whether the client still
\* holds its end
ClientFrames ==
    {[c2s |-> to_be_bytes(Len(to_payload(r))) \o to_payload(r), open |-> TRUE] :
        r \in Requests} \cup
    {[c2s |-> to_payload(r), open |-> TRUE] : r \in Requests} \cup
    {[c2s |-> to_be_bytes(1) \o <<0>>, open |-> TRUE], [c2s |-> <<>>, open |-> FALSE]}

\* IpcServer::accept_request on an accepted stream: read_exact waits while
\* the peer holds its end and fails at its end of stream; vec![0; size] panics
\* with a capacity overflow from 2^63 and cannot be allocated below it
accept_request(c) ==
    LET short == [outcome |-> IF c.open THEN "blocked" ELSE "ConnectionRead",
                  request |-> None]
    IN IF Len(c.c2s) < 8 THEN short
       ELSE LET size == from_be_bytes(SubSeq(c.c2s, 1, 8))
                rest == SubSeq(c.c2s, 9, Len(c.c2s))
            IN IF size = None
               THEN IF c.c2s[1] >= 128 THEN [outcome |-> "panic", request |-> None]
                    ELSE IF c.c2s[1] > 0 THEN [outcome |-> "abort", request |-> None]
                    ELSE short
               ELSE IF Len(rest) < size[1] THEN short
               ELSE LET q == from_payload(Requests, SubSeq(rest, 1, size[1]))
                    IN IF q.ok THEN [outcome |-> "ok", request |-> Some(q.data)]
                       ELSE [outcome |-> "Deserialize", request |-> None]

send_response_keeps(cs) == cs
\* IpcServer::send_response: conns.pop_front(), the connection written to and
\* dropped
send_response(cs) == IF cs = <<>> THEN <<>> ELSE Tail(cs)

\* WutagDaemon::process_request for the requests of the wire model
process_request(r, x, ex, request, colors) ==
    IF request.variant = "Ping"
    THEN Done(Work(r, x), FALSE, None, Response("Ping", <<>>))
    ELSE IF request.variant = "ClearCache" THEN clean_cache(r, x)
    ELSE daemon_clear_tags(r, x, ex,
                           [i \in DOMAIN request.tags |-> name_of(request.tags[i])],
                           colors)

\* a client connects and writes
Connect ==
    /\ alive
    /\ Len(backlog) < MaxBacklog
    /\ \E c \in ClientFrames : backlog' = Append(backlog, c)
    /\ ret' = [op |-> "connect", val |-> None]
    /\ UNCHANGED <<tags, entries, minted, exists, xattrs, disk, entries_events,
                   fs_events, watched, backend, links, raw, pending, conn,
                   conns, h1, h2, lock, alive>>

\* process_connection: accept_request
Accept ==
    /\ alive
    /\ h1.pc = "accept"
    /\ backlog # <<>>
    /\ \E a \in {accept_request(Head(backlog))} :
        /\ backlog' = Tail(backlog)
        /\ conns' = IF a.outcome = "ok" THEN Append(conns, Head(backlog)) ELSE conns
        /\ h1' = CASE a.outcome = "ok" -> [pc |-> "process", request |-> a.request[1]]
                   [] a.outcome = "blocked" -> [pc |-> "blocked"]
                   [] a.outcome = "panic" -> [pc |-> "dead"]
                   [] OTHER -> [pc |-> "accept"]
        /\ alive' = (a.outcome # "abort")
        /\ ret' = [op |-> "accept_request", val |-> a.outcome]
    /\ UNCHANGED <<tags, entries, minted, exists, xattrs, disk, entries_events,
                   fs_events, watched, backend, links, raw, pending, conn,
                   h2, lock>>

\* process_connection: process_request
Dispatch ==
    /\ alive
    /\ h1.pc = "process"
    /\ \E colors \in [1..MaxWireTags -> RequestColors] :
       \E d \in {process_request(Reg, xattrs, exists, h1.request, colors)} :
        /\ Room(d.event)
        /\ tags' = d.reg.tags
        /\ entries' = d.reg.entries
        /\ xattrs' = d.x
        /\ disk' = IF d.saved # None THEN d.saved ELSE disk
        /\ entries_events' = Pushed(d.event)
        /\ h1' = [pc |-> "respond", response |-> d.val]
        /\ ret' = [op |-> "process_request", val |-> d.val]
    /\ UNCHANGED <<minted, exists, fs_events, watched, backend, links, raw, pending,
                   conn, backlog, conns, h2, lock, alive>>

\* process_connection: send_response
Respond ==
    /\ alive
    /\ h1.pc = "respond"
    /\ conns' = send_response(conns)
    /\ h1' = [pc |-> "accept"]
    /\ ret' = [op |-> "send_response", val |-> h1.response]
    /\ UNCHANGED <<tags, entries, minted, exists, xattrs, disk, entries_events,
                   fs_events, watched, backend, links, raw, pending, conn,
                   backlog, h2, lock, alive>>

\* the registries the daemon finds in its file: none yet, or what a TagFiles
\* request left
StoredRegistries ==
    {Done(Work(Registry(EmptyMap, EmptyMap), [p \in Paths |-> {}]), TRUE, None, None)} \cup
    {tag_files(Registry(EmptyMap, EmptyMap), [p \in Paths |-> {}], Files, <<f>>, tgs, <<0>>) :
        f \in Files, tgs \in TagLists \ {<<>>}}

InitServe ==
    /\ \E d \in StoredRegistries :
        /\ tags = d.reg.tags
        /\ entries = d.reg.entries
        /\ xattrs = d.x
        /\ disk = d.saved
    /\ minted = {}
    /\ ret = [op |-> "main", val |-> None]
    /\ exists = Files
    /\ entries_events = <<>>
    /\ fs_events = <<>>
    /\ watched = {}
    /\ backend = "notify"
    /\ links = [p \in Paths |-> None]
    /\ raw = <<>>
    /\ pending = None
    /\ conn = None
    /\ backlog = <<>>
    /\ conns = <<>>
    /\ h1 = [pc |-> "accept"]
    /\ h2 = [pc |-> "poll"]
    /\ lock = "free"
    /\ alive = TRUE

NextServe ==
    \/ Connect
    \/ Accept
    \/ Dispatch
    \/ Respond

SpecServe == InitServe /\ [][NextServe]_vars

\* ----------------------------------- the batch handlers on several files
\* the lists of distinct paths a request carries; the clock readings of a
\* handler run are drawn from those past the epoch, EntryIds
PathLists == {f \in UNION {[1..n -> Paths] : n \in 0..NumPaths} :
                 \A i, j \in DOMAIN f : i # j => f[i] # f[j]}

\* the (file, tag) pairs of tag_files and copy_tags whose save_to failed
failed_pairs(r, x, ex, files, tgs, nows) ==
    IF files = <<>> \/ tgs = <<>> THEN <<>>
    ELSE tag_files_loop(Work(r, x), ex, files, tgs, nows).errors

\* the (file, tag) pairs of untag_files whose remove_from failed, the files
\* of clear_files whose clear_tags failed
failed_untags(r, x, ex, files, tgs) ==
    IF files = <<>> \/ tgs = <<>> THEN <<>>
    ELSE untag_files_loop(Work(r, x), ex, files, tgs).errors
failed_clears(r, x, ex, files) == clear_files_loop(Work(r, x), ex, files).errors

\* the tags copy_tags reads from its source
source_tags(x, ex, source) ==
    IF list_tags(x, ex, source) = None THEN <<>>
    ELSE TagsToSeq(list_tags(x, ex, source)[1])

BatchTagFiles ==
    \E files \in PathLists, tgs \in TagLists :
        \E nows \in [DOMAIN files -> EntryIds] :
            \E d \in {tag_files(Reg, xattrs, exists, files, tgs, nows)} :
               /\ Room(d.event)
               /\ tags' = d.reg.tags
               /\ entries' = d.reg.entries
               /\ xattrs' = d.x
               /\ disk' = IF d.saved # None THEN d.saved ELSE disk
               /\ entries_events' = Pushed(d.event)
               /\ ret' = [op |-> "TagFiles", val |-> d.val.ok]
               /\ UNCHANGED <<minted, exists, fs_events, watched, backend, iovars>>

BatchUntagFiles ==
    \E files \in PathLists, tgs \in TagLists :
        \E d \in {untag_files(Reg, xattrs, exists, files, tgs)} :
           /\ Room(d.event)
           /\ tags' = d.reg.tags
           /\ entries' = d.reg.entries
           /\ xattrs' = d.x
           /\ disk' = IF d.saved # None THEN d.saved ELSE disk
           /\ entries_events' = Pushed(d.event)
           /\ ret' = [op |-> "UntagFiles", val |-> d.val.ok]
           /\ UNCHANGED <<minted, exists, fs_events, watched, backend, iovars>>

BatchCopyTags ==
    \E source \in Paths, target \in PathLists :
        \E nows \in [DOMAIN target -> EntryIds] :
            \E d \in {copy_tags(Reg, xattrs, exists, source, target, nows)} :
               /\ Room(d.event)
               /\ tags' = d.reg.tags
               /\ entries' = d.reg.entries
               /\ xattrs' = d.x
               /\ disk' = IF d.saved # None THEN d.saved ELSE disk
               /\ entries_events' = Pushed(d.event)
               /\ ret' = [op |-> "CopyTags", val |-> d.val.ok]
               /\ UNCHANGED <<minted, exists, fs_events, watched, backend, iovars>>

BatchClearFiles ==
    \E files \in PathLists :
        \E d \in {clear_files(Reg, xattrs, exists, files)} :
           /\ Room(d.event)
           /\ tags' = d.reg.tags
           /\ entries' = d.reg.entries
           /\ xattrs' = d.x
           /\ disk' = IF d.saved # None THEN d.saved ELSE disk
           /\ entries_events' = Pushed(d.event)
           /\ ret' = [op |-> "ClearFiles", val |-> d.val.ok]
           /\ UNCHANGED <<minted, exists, fs_events, watched, backend, iovars>>

\* the attributes the files carry when the daemon first meets them: none, or
\* on the first path keys the codec of the whole Tag wrote
LegacyFiles ==
    {[p \in Paths |-> IF p = 1 THEN {cbor_hash(Tag(n, 1)) : n \in ns} ELSE {}] :
        ns \in SUBSET Names}

InitBatch ==
    /\ tags = EmptyMap
    /\ entries = EmptyMap
    /\ minted = {}
    /\ ret = [op |-> "main", val |-> None]
    /\ exists = Paths
    /\ xattrs \in LegacyFiles
    /\ disk = Some(save(Registry(EmptyMap, EmptyMap)))
    /\ entries_events = <<>>
    /\ fs_events = <<>>
    /\ watched = {}
    /\ backend = "notify"
    /\ links = [p \in Paths |-> None]
    /\ raw = <<>>
    /\ pending = None
    /\ conn = None
    /\ backlog = <<>>
    /\ conns = <<>>
    /\ h1 = [pc |-> "accept"]
    /\ h2 = [pc |-> "poll"]
    /\ lock = "free"
    /\ alive = TRUE

NextBatch ==
    \/ BatchTagFiles
    \/ BatchUntagFiles
    \/ BatchCopyTags
    \/ BatchClearFiles
    \/ HandleEntriesEvents
    \/ Unlink

SpecBatch == InitBatch /\ [][NextBatch]_vars

\* --------------------------------- files without room for an attribute
\* the closure handle_entry of App::set: `for tag in tags`, left at the first
\* TagListFull
RECURSIVE handle_entry(_, _, _, _, _)
handle_entry(w, ex, path, tgs, now) ==
    IF tgs = <<>> THEN w
    ELSE LET tag == Head(tgs)
             s == save_to(w.x, ex, path, tag)
             a == add_or_update_entry(w.reg, path, now)
             failed == [w EXCEPT !.errors = Append(@, <<path, tag.name, s.err>>)]
         IN IF ~s.ok
            THEN IF s.err = "TagListFull" THEN failed
                 ELSE handle_entry(failed, ex, path, Tail(tgs), now)
            ELSE handle_entry([w EXCEPT !.x = s.x,
                                        !.reg = tag_entry(a.reg, tag, a.val[1]).reg],
                              ex, path, Tail(tgs), now)

\* `for path in &opts.paths` of App::set: a path that does not canonicalize
\* is passed over
RECURSIVE set(_, _, _, _, _)
set(w, ex, paths, tgs, nows) ==
    IF paths = <<>> THEN w
    ELSE set(IF Head(paths) \in ex
             THEN handle_entry(w, ex, Head(paths), tgs, Head(nows))
             ELSE w,
             ex, Tail(paths), tgs, Tail(nows))

\* wutag set, run on the registry without the daemon; save_registry at its end
AppSet ==
    \E paths \in PathLists \ {<<>>}, tgs \in TagLists :
        \E nows \in [DOMAIN paths -> EntryIds] :
            \E w \in {set(Work(Reg, xattrs), exists, paths, tgs, nows)} :
               /\ tags' = w.reg.tags
               /\ entries' = w.reg.entries
               /\ xattrs' = w.x
               /\ disk' = Some(save(w.reg))
               /\ ret' = [op |-> "set", val |-> w.errors = <<>>]
               /\ UNCHANGED <<minted, exists, entries_events, fs_events, watched,
                              backend, iovars>>

\* the files as the tagging finds them: with room for attributes or without
FullFiles == [Paths -> {{}, {Filler}}]

InitFull ==
    /\ tags = EmptyMap
    /\ entries = EmptyMap
    /\ minted = {}
    /\ ret = [op |-> "main", val |-> None]
    /\ exists = Paths
    /\ xattrs \in FullFiles
    /\ disk = Some(save(Registry(EmptyMap, EmptyMap)))
    /\ entries_events = <<>>
    /\ fs_events = <<>>
    /\ watched = {}
    /\ backend = "notify"
    /\ links = [p \in Paths |-> None]
    /\ raw = <<>>
    /\ pending = None
    /\ conn = None
    /\ backlog = <<>>
    /\ conns = <<>>
    /\ h1 = [pc |-> "accept"]
    /\ h2 = [pc |-> "poll"]
    /\ lock = "free"
    /\ alive = TRUE

NextFull ==
    \/ BatchTagFiles
    \/ AppSet
    \/ HandleEntriesEvents

SpecFull == InitFull /\ [][NextFull]_vars

\* ------------------------- the two threads and the registry lock
\* (registry.rs, main.rs, notifyd.rs)
\* RwLock::try_write as the thread `who` meets the lock
try_write(l, who) ==
    IF l = "free" THEN [lock |-> who, found |-> "free"]
    ELSE IF l = "poisoned" THEN [lock |-> l, found |-> "poisoned"]
    ELSE [lock |-> l, found |-> "held"]

\* get_registry_write: one try_write, std::process::exit(1) on any error
get_registry_write(l) ==
    [lock |-> try_write(l, "h1").lock,
     found |-> try_write(l, "h1").found,
     exit |-> try_write(l, "h1").found # "free",
     guard |-> try_write(l, "h1").found = "free"]

try_get_registry_write_loop_spins(l, i) ==
    IF try_write(l, "h2").found = "free"
    THEN [lock |-> "h2", i |-> i, found |-> "free", val |-> Some("Ok")]
    ELSE IF try_write(l, "h2").found = "poisoned"
    THEN [lock |-> l, i |-> i, found |-> "poisoned", val |-> Some("LockPoisoned")]
    ELSE [lock |-> l, i |-> i, found |-> "held", val |-> None]
\* one turn of the loop of try_get_registry_write_loop, i the counter before
\* the turn: Err(Lock) once the counter reaches GiveUpAt, else one
\* try_write, `continue` on WouldBlock
try_get_registry_write_loop(l, i) ==
    IF i + 1 >= GiveUpAt
    THEN [lock |-> l, i |-> i, found |-> "held", val |-> Some("Lock")]
    ELSE IF try_write(l, "h2").found = "free"
    THEN [lock |-> "h2", i |-> i + 1, found |-> "free", val |-> Some("Ok")]
    ELSE IF try_write(l, "h2").found = "poisoned"
    THEN [lock |-> l, i |-> i + 1, found |-> "poisoned", val |-> Some("LockPoisoned")]
    ELSE [lock |-> l, i |-> i + 1, found |-> "held", val |-> None]

\* the requests of the connection thread that take the write lock
LockRequests ==
    {[kind |-> "TagFiles", tgs |-> <<t>>] : t \in RequestTags} \cup
    {[kind |-> "ClearFiles", tgs |-> <<>>]}

\* what the handler of the request does under the guard
handled(r, x, ex, request, file) ==
    IF request.kind = "TagFiles"
    THEN tag_files(r, x, ex, <<file>>, request.tgs, <<0>>)
    ELSE clear_files(r, x, ex, <<file>>)

\* the connection thread between two requests: no guard held, the deltas it
\* could not push in unprocessed_events
Serving(unprocessed) ==
    [pc |-> "accept", request |-> None, file |-> None, event |-> None,
     response |-> None, holds |-> {}, unprocessed |-> unprocessed]
\* the watch loop at `pc`, with the events it took, the counter of
\* try_get_registry_write_loop and the guards of the queues it holds
Looping(pc, events, i, holds) ==
    [pc |-> pc, events |-> events, i |-> i, holds |-> holds]

\* a handler of the connection thread reaches get_registry_write
BeginRequest ==
    /\ alive
    /\ h1.pc = "accept"
    /\ Len(entries_events) < MaxQueue
    /\ Len(h1.unprocessed) < MaxQueue
    /\ \E request \in LockRequests, file \in Files :
       \E g \in {get_registry_write(lock)} :
          /\ lock' = g.lock
          /\ alive' = ~g.exit
          /\ h1' = IF g.guard
                   THEN [h1 EXCEPT !.pc = "work", !.request = request, !.file = file]
                   ELSE h1
          /\ ret' = [op |-> "acquire", by |-> "h1", attempts |-> 1, found |-> g.found,
                     val |-> IF g.guard THEN "Ok" ELSE "exit"]
    /\ UNCHANGED <<tags, entries, minted, exists, xattrs, disk, entries_events,
                   fs_events, watched, backend, links, raw, pending, conn,
                   backlog, conns, h2>>

\* the handler runs under the guard and saves; the guard `registry` lives on
\* to the end of the handler
RunHandler ==
    /\ alive
    /\ h1.pc = "work"
    /\ \E d \in {handled(Reg, xattrs, exists, h1.request, h1.file)} :
          /\ tags' = d.reg.tags
          /\ entries' = d.reg.entries
          /\ xattrs' = d.x
          /\ disk' = IF d.saved # None THEN d.saved ELSE disk
          /\ h1' = [h1 EXCEPT !.pc = IF d.event = None THEN "return" ELSE "push",
                              !.event = d.event, !.response = d.val]
    /\ ret' = [op |-> "handler", val |-> None]
    /\ UNCHANGED <<minted, exists, entries_events, fs_events, watched, backend, links,
                   raw, pending, conn, backlog, conns, h2, lock, alive>>

\* push_event: ENTRIES_EVENTS.try_write(); the delta goes to
\* unprocessed_events when the queue is locked
push_event(mine, theirs, unprocessed, event) ==
    IF "ENTRIES_EVENTS" \in theirs
    THEN [holds |-> mine, unprocessed |-> Append(unprocessed, event), pushed |-> FALSE]
    ELSE [holds |-> mine \cup {"ENTRIES_EVENTS"}, unprocessed |-> unprocessed,
          pushed |-> TRUE]

\* the handler calls push_event
LockPending ==
    /\ alive
    /\ h1.pc = "push"
    /\ \E p \in {push_event(h1.holds, h2.holds, h1.unprocessed, h1.event[1])} :
          /\ h1' = [h1 EXCEPT !.pc = IF p.pushed THEN "pushing" ELSE "return",
                              !.holds = p.holds, !.unprocessed = p.unprocessed]
          /\ ret' = [op |-> "push_event", event |-> h1.event[1],
                     val |-> IF p.pushed THEN "locked" ELSE "kept"]
    /\ UNCHANGED <<tags, entries, minted, exists, xattrs, disk, entries_events,
                   fs_events, watched, backend, links, raw, pending, conn,
                   backlog, conns, h2, lock, alive>>

\* push_event: events.push(event), the guard of the queue is dropped
PushEvent ==
    /\ alive
    /\ h1.pc = "pushing"
    /\ entries_events' = Append(entries_events, h1.event[1])
    /\ h1' = [h1 EXCEPT !.pc = "return", !.holds = @ \ {"ENTRIES_EVENTS"}]
    /\ ret' = [op |-> "push_event", event |-> h1.event[1], val |-> "pushed"]
    /\ UNCHANGED <<tags, entries, minted, exists, xattrs, disk, fs_events, watched,
                   backend, links, raw, pending, conn, backlog, conns, h2, lock,
                   alive>>

\* the handler returns its response: the guard of the registry is dropped
FinishRequest ==
    /\ alive
    /\ h1.pc = "return"
    /\ lock' = "free"
    /\ h1' = Serving(h1.unprocessed)
    /\ ret' = [op |-> h1.request.kind, val |-> h1.response]
    /\ UNCHANGED <<tags, entries, minted, exists, xattrs, disk, entries_events,
                   fs_events, watched, backend, links, raw, pending, conn, backlog,
                   conns, h2, alive>>

\* a thread panics while it holds the write guard: the guard is dropped in
\* the unwinding and the RwLock is poisoned; thread::scope keeps the process
\* up as long as the other thread runs
HolderPanics ==
    /\ alive
    /\ \/ /\ h1.pc = "work"
          /\ h1' = [h1 EXCEPT !.pc = "dead"]
          /\ h2' = h2
          /\ ret' = [op |-> "panic", by |-> "h1", val |-> None]
       \/ /\ h2.pc = "hold"
          /\ h2' = Looping("dead", <<>>, 0, {})
          /\ h1' = h1
          /\ ret' = [op |-> "panic", by |-> "h2", val |-> None]
    /\ lock' = "poisoned"
    /\ UNCHANGED <<tags, entries, minted, exists, xattrs, disk, entries_events,
                   fs_events, watched, backend, links, raw, pending, conn,
                   backlog, conns, alive>>

\* work_loop of notifyd, handle_entries_events: ENTRIES_EVENTS.try_write(),
\* Err(EntriesEventsLock) when the connection thread holds the queue
LockEntries ==
    /\ alive
    /\ h2.pc = "poll"
    /\ h2' = IF "ENTRIES_EVENTS" \in h1.holds
             THEN Looping("events", <<>>, 0, {})
             ELSE Looping("entries", <<>>, 0, {"ENTRIES_EVENTS"})
    /\ ret' = [op |-> "lock_entries", by |-> "h2",
               found |-> IF "ENTRIES_EVENTS" \in h1.holds THEN "held" ELSE "free"]
    /\ UNCHANGED <<tags, entries, minted, exists, xattrs, disk, entries_events,
                   fs_events, watched, backend, links, raw, pending, conn,
                   backlog, conns, h1, lock, alive>>

\* handle_entries_events with the queue locked: mem::take, the guard
\* dropped, the watches added and removed
LoopEntries ==
    /\ alive
    /\ h2.pc = "entries"
    /\ watched' = handle_entries_events(watched, exists, entries_events)
    /\ entries_events' = <<>>
    /\ h2' = Looping("events", <<>>, 0, {})
    /\ ret' = [op |-> "handle_entries_events", by |-> "h2", taken |-> entries_events]
    /\ UNCHANGED <<tags, entries, minted, exists, xattrs, disk, fs_events, backend,
                   links, raw, pending, conn, backlog, conns, h1, lock, alive>>

\* handle_notify_events: NOTIFY_EVENTS.try_write()
LockEvents ==
    /\ alive
    /\ h2.pc = "events"
    /\ h2' = Looping("take", <<>>, 0, {"NOTIFY_EVENTS"})
    /\ ret' = [op |-> "lock_events", val |-> None]
    /\ UNCHANGED <<tags, entries, minted, exists, xattrs, disk, entries_events,
                   fs_events, watched, backend, links, raw, pending, conn,
                   backlog, conns, h1, lock, alive>>

take_events_keeps(events, holds) ==
    IF events = <<>> THEN Looping("poll", <<>>, 0, {})
    ELSE Looping("acquire", events, 0, holds)
\* handle_notify_events: Ok(()) when there are no events, else mem::take and
\* mem::drop(events_handle) before the registry is asked for
take_events(events, holds) ==
    IF events = <<>> THEN Looping("poll", <<>>, 0, {})
    ELSE Looping("acquire", events, 0, holds \ {"NOTIFY_EVENTS"})

TakeEvents ==
    /\ alive
    /\ h2.pc = "take"
    /\ h2' = take_events(fs_events, h2.holds)
    /\ fs_events' = <<>>
    /\ ret' = [op |-> "take_events", val |-> None]
    /\ UNCHANGED <<tags, entries, minted, exists, xattrs, disk, entries_events,
                   watched, backend, links, raw, pending, conn,
                   backlog, conns, h1, lock, alive>>

\* handle_notify_events: one turn of try_get_registry_write_loop; an Err
\* goes up through `?` to work_loop, which logs it and sleeps
Attempt ==
    /\ alive
    /\ h2.pc = "acquire"
    /\ \E a \in {try_get_registry_write_loop(lock, h2.i)} :
          /\ lock' = a.lock
          /\ h2' = IF a.val = None THEN [h2 EXCEPT !.i = a.i]
                   ELSE IF a.val[1] = "Ok" THEN Looping("hold", h2.events, 0, h2.holds)
                   ELSE Looping("poll", <<>>, 0, {})
          /\ ret' = IF a.val = None
                    THEN [op |-> "try_write", by |-> "h2", attempts |-> a.i,
                          found |-> a.found, val |-> "continue"]
                    ELSE [op |-> "acquire", by |-> "h2", attempts |-> a.i,
                          found |-> a.found, val |-> a.val[1]]
    /\ UNCHANGED <<tags, entries, minted, exists, xattrs, disk, entries_events,
                   fs_events, watched, backend, links, raw, pending, conn,
                   backlog, conns, h1, alive>>

\* handle_notify_events under the guard: clear_entry for the paths, save
Apply ==
    /\ alive
    /\ h2.pc = "hold"
    /\ \E r \in {handle_notify_events(Reg, h2.events)} :
          /\ tags' = r.tags
          /\ entries' = r.entries
          /\ disk' = Some(save(r))
    /\ lock' = "free"
    /\ h2' = Looping("poll", <<>>, 0, {})
    /\ ret' = [op |-> "handle_notify_events", val |-> None]
    /\ UNCHANGED <<minted, exists, xattrs, entries_events, fs_events, watched, backend,
                   links, raw, pending, conn, backlog, conns, h1, alive>>

\* a watched file is deleted: the watcher forgets the path and calls
\* Handler::handle_event, which pushes the event unless NOTIFY_EVENTS is
\* locked by the loop at that moment; the registry lock is not looked at
Deleted ==
    /\ alive
    /\ \E p \in exists \cap watched :
          /\ Len(fs_events) < MaxQueue
          /\ exists' = exists \ {p}
          /\ xattrs' = [xattrs EXCEPT ![p] = {}]
          /\ watched' = watched \ {p}
          /\ fs_events' = IF "NOTIFY_EVENTS" \in h2.holds THEN fs_events
                          ELSE Append(fs_events, p)
          /\ ret' = [op |-> "handle_event", path |-> p,
                     tracked |-> find_entry(entries, p) # None,
                     val |-> "NOTIFY_EVENTS" \notin h2.holds]
    /\ UNCHANGED <<tags, entries, minted, disk, entries_events, backend,
                   links, raw, pending, conn, backlog, conns, h1, h2, lock, alive>>

\* the file is there again
Created ==
    /\ alive
    /\ \E p \in Files \ exists :
          /\ exists' = exists \cup {p}
          /\ ret' = [op |-> "created", path |-> p, val |-> None]
    /\ UNCHANGED <<tags, entries, minted, xattrs, disk, entries_events, fs_events,
                   watched, backend, links, raw, pending, conn, backlog, conns,
                   h1, h2, lock, alive>>

\* the daemon as main leaves it: the registry of the file, its paths watched
InitLock ==
    /\ \E d \in StoredRegistries :
        /\ tags = d.reg.tags
        /\ entries = d.reg.entries
        /\ xattrs = d.x
        /\ disk = d.saved
        /\ watched = rebuild_watch_entries(d.reg, Files).watched
    /\ minted = {}
    /\ ret = [op |-> "main", val |-> None]
    /\ exists = Files
    /\ entries_events = <<>>
    /\ fs_events = <<>>
    /\ backend = "notify"
    /\ links = [p \in Paths |-> None]
    /\ raw = <<>>
    /\ pending = None
    /\ conn = None
    /\ backlog = <<>>
    /\ conns = <<>>
    /\ h1 = Serving(<<>>)
    /\ h2 = Looping("poll", <<>>, 0, {})
    /\ lock = "free"
    /\ alive = TRUE

\* the steps of a handler after it has the guard of the registry
HandleRequest ==
    \/ RunHandler
    \/ LockPending
    \/ PushEvent
    \/ FinishRequest

\* the steps of the watch loop
WatchLoop ==
    \/ LockEntries
    \/ LoopEntries
    \/ LockEvents
    \/ TakeEvents
    \/ Attempt
    \/ Apply

NextLock ==
    \/ BeginRequest
    \/ HandleRequest
    \/ HolderPanics
    \/ WatchLoop
    \/ Deleted
    \/ Created

SpecLock == InitLock /\ [][NextLock]_vars

\* a handler that holds the guard gets to its end: the connection thread is
\* not under the guard for ever
HandlerRuns == []<>(~alive \/ h1.pc \in {"accept", "dead"})

\* both threads are scheduled: the watch loop takes its next step, a handler
\* under the guard finishes
SpecLockFair == SpecLock /\ WF_vars(WatchLoop) /\ HandlerRuns

\* the watch loop alone is scheduled, the connection thread as it happens
SpecLockLoop == SpecLock /\ WF_vars(WatchLoop)

\* the tag functions of wutag_core on a file system with links, no daemon
InitAttrs ==
    /\ tags = EmptyMap
    /\ entries = EmptyMap
    /\ minted = {}
    /\ ret = [op |-> "none", val |-> None]
    /\ exists = Paths
    /\ xattrs = [p \in Paths |-> {}]
    /\ disk = None
    /\ entries_events = <<>>
    /\ fs_events = <<>>
    /\ watched = {}
    /\ backend = "notify"
    /\ links \in LinkLayouts
    /\ raw = <<>>
    /\ pending = None
    /\ conn = None
    /\ backlog = <<>>
    /\ conns = <<>>
    /\ h1 = [pc |-> "accept"]
    /\ h2 = [pc |-> "poll"]
    /\ lock = "free"
    /\ alive = TRUE

NextAttrs ==
    \/ SaveTo
    \/ RemoveFrom
    \/ ClearTagsOf
    \/ ListTags
    \/ TaggedBefore
    \/ Unlink

SpecAttrs == InitAttrs /\ [][NextAttrs]_vars

\* the retrievals of one file's attributes beside a process that changes them
InitRace ==
    /\ tags = EmptyMap
    /\ entries = EmptyMap
    /\ minted = {}
    /\ ret = [op |-> "none", val |-> None]
    /\ exists = Paths
    /\ xattrs = [p \in Paths |-> {}]
    /\ disk = None
    /\ entries_events = <<>>
    /\ fs_events = <<>>
    /\ watched = {}
    /\ backend = "notify"
    /\ links = [p \in Paths |-> None]
    /\ raw = <<>>
    /\ pending = None
    /\ conn = None
    /\ backlog = <<>>
    /\ conns = <<>>
    /\ h1 = [pc |-> "accept"]
    /\ h2 = [pc |-> "poll"]
    /\ lock = "free"
    /\ alive = TRUE

NextRace ==
    \/ GetXattr
    \/ ListXattrs
    \/ NextKeySize
    \/ FetchValue
    \/ FetchList
    \/ OtherProcess

SpecRace == InitRace /\ [][NextRace]_vars

\* a client and the server on the local socket, one connection at a time
NextWire ==
    \/ Request
    \/ PayloadSend
    \/ AcceptRequest
    \/ SendResponse
    \/ ReadResponse
    \/ PayloadRead

SpecWire == InitRace /\ [][NextWire]_vars

\* =================================================================== claims
\* the entry set recorded under a tag name, empty when the name is no tag
SetOf(t, name) == UNION {t[k] : k \in {k \in DOMAIN t : k.name = name}}
\* the names of the tags that carry an id
Carried(t, id) == {k.name : k \in {k \in DOMAIN t : id \in t[k]}}
NoEmptyTag == \A k \in DOMAIN tags : tags[k] # {}
NoUntaggedEntry == \A i \in DOMAIN entries : Carried(tags, i) # {}
\* every key of t other than those named `name` is kept in u with its set
OthersKept(t, u, name) ==
    /\ \A k \in DOMAIN t : k.name # name => k \in DOMAIN u /\ u[k] = t[k]
    /\ \A k \in DOMAIN u : k.name # name => k \in DOMAIN t

C2_TagIdsAreEntries == \A k \in DOMAIN tags : tags[k] \subseteq DOMAIN entries

\* C3: untag_entry(tag, id) takes id out of the tag's set and deletes the tag
\* when the set is empty; it removes the entry and returns its data exactly
\* when id carries no tag afterwards, and otherwise returns None and leaves
\* the entry and its other tags as they were.
C3_UntagEntryContract ==
    [][ret'.op = "untag_entry" =>
        LET name == ret'.tag.name
            id == ret'.id
            left == SetOf(tags, name) \ {id}
        IN /\ SetOf(tags', name) = left
           /\ left = {} => ~(\E k \in DOMAIN tags' : k.name = name)
           /\ left # {} => \E k \in DOMAIN tags \cap DOMAIN tags' : k.name = name
           /\ OthersKept(tags, tags', name)
           /\ IF Carried(tags', id) = {} /\ id \in DOMAIN entries
              THEN /\ ret'.val = Some(entries[id])
                   /\ entries' = EntRemove(entries, id)
              ELSE /\ ret'.val = None
                   /\ entries' = entries]_vars

\* Scenario B, first half: the entry lost one tag, which is gone, and survives
\* with another
C3_Witness ==
    /\ ret.op = "untag_entry"
    /\ ret.val = None
    /\ ret.id \in DOMAIN entries
    /\ ret.tag.name \notin {k.name : k \in DOMAIN tags}
    /\ Carried(tags, ret.id) # {}

\* C4: the first tag_entry(t, e) adds e to t's set and returns None; a further
\* tag_entry(t, e) returns Some(e) and changes nothing.
C4_TagEntryIdempotent ==
    [][ret'.op = "tag_entry" =>
        LET name == ret'.tag.name
            id == ret'.id
        IN /\ entries' = entries
           /\ OthersKept(tags, tags', name)
           /\ IF id \in SetOf(tags, name)
              THEN ret'.val = Some(id) /\ tags' = tags
              ELSE ret'.val = None /\ SetOf(tags', name) = SetOf(tags, name) \cup {id}
           /\ tag_entry(Registry(tags', entries'), ret'.tag, id)
                = [reg |-> Registry(tags', entries'), val |-> Some(id)]]_vars

\* a repeated tag_entry on a tag that two entries carry
C4_Witness ==
    /\ ret.op = "tag_entry"
    /\ ret.val = Some(ret.id)
    /\ Cardinality(SetOf(tags, ret.tag.name)) = 2

C6_ClearEntryFrame ==
    [][ret'.op = "clear_entry" =>
        LET id == ret'.id
        IN /\ DOMAIN tags' = {k \in DOMAIN tags : tags[k] \ {id} # {}}
           /\ \A k \in DOMAIN tags' : tags'[k] = tags[k] \ {id}
           /\ entries' = EntRemove(entries, id)
           /\ \A i \in DOMAIN entries \ {id} :
                /\ entries'[i] = entries[i]
                /\ Carried(tags', i) = Carried(tags, i)]_vars

\* an entry that was in the registry is cleared; a tag it shared with another
\* entry is kept for that entry
C6_Witness ==
    /\ ret.op = "clear_entry"
    /\ \E p \in Paths : <<ret.id, p>> \in minted
    /\ ret.id \notin DOMAIN entries
    /\ \E i \in DOMAIN entries : Carried(tags, i) # {}

\* C7: add_or_update_entry(path) returns (id, false) and keeps the number of
\* entries when an entry has the path, and otherwise inserts exactly one new
\* entry and returns (new id, true); no two ids map to one path, and
\* find_entry(path) is the id returned.
C7_AddOrUpdateByPath ==
    [][ret'.op = "add_or_update_entry" =>
        LET p == ret'.path
            had == {i \in DOMAIN entries : entries[i] = p}
        IN /\ IF had # {}
              THEN /\ ret'.val[1] \in had /\ ret'.val[2] = FALSE
                   /\ Cardinality(DOMAIN entries') = Cardinality(DOMAIN entries)
              ELSE /\ ret'.val[2] = TRUE
                   /\ Cardinality(DOMAIN entries') = Cardinality(DOMAIN entries) + 1
           /\ \A i, j \in DOMAIN entries' : entries'[i] = entries'[j] => i = j
           /\ find_entry(entries', p) = Some(ret'.val[1])]_vars

\* C8: an id returned with created = true differs from every id that is, or
\* earlier was, assigned to a different path; the insertion replaces no entry.
C8_FreshIdNeverReused ==
    [][(ret'.op = "add_or_update_entry" /\ ret'.val[2]) =>
        LET id == ret'.val[1]
        IN /\ id \notin DOMAIN entries
           /\ \A m \in minted : m[1] = id => m[2] = ret'.path
           /\ \A i \in DOMAIN entries : i \in DOMAIN entries' /\ entries'[i] = entries[i]]_vars

\* C9: for any two tag names A and B, tags of the registry or not,
\* list_entries_with_all_tags([A, B]) is the intersection of
\* list_entries_with_any_tags([A]) and list_entries_with_any_tags([B]).
C9_AllOfTwoIsIntersection ==
    (ret.op = "list_entries_with_all_tags" /\ Len(ret.names) = 2)
        => ret.val = list_entries_with_any_tags(tags, <<ret.names[1]>>)
                       \cap list_entries_with_any_tags(tags, <<ret.names[2]>>)

\* the ids that are in the entry set of every name of the list
CarryEvery(t, names) ==
    IF names = <<>> THEN {}
    ELSE {i \in EntryIds : \A n \in 1..Len(names) : i \in SetOf(t, names[n])}

\* C10: list_entries_with_all_tags(names) is the intersection of the named
\* sets, whatever the order of the names, and empty for the empty list; a
\* Search with any = false answers with the paths of those entries.
C10_AllIsIntersection ==
    /\ ret.op = "list_entries_with_all_tags" => ret.val = CarryEvery(tags, ret.names)
    /\ (ret.op = "Search" /\ ~ret.any /\ ret.names # <<>>)
         => /\ ret.val.ok
            /\ ret.val.found = {entries[i] : i \in CarryEvery(tags, ret.names) \cap DOMAIN entries}

\* C11: list_entries_with_any_tags(names) is the union of the entry sets of
\* the named tags, each entry once (the result is collected from a BTreeSet);
\* a name that is no tag of the registry adds nothing.
C11_AnyIsUnion ==
    ret.op = "list_entries_with_any_tags"
        => ret.val = UNION {SetOf(tags, ret.names[n]) : n \in 1..Len(ret.names)}

\* the list names two tags that share one entry and differ in another
C11_Witness ==
    /\ ret.op = "list_entries_with_any_tags"
    /\ \E a, b \in 1..Len(ret.names) :
          /\ ret.names[a] # ret.names[b]
          /\ SetOf(tags, ret.names[a]) \cap SetOf(tags, ret.names[b]) # {}
          /\ SetOf(tags, ret.names[a]) # SetOf(tags, ret.names[b])
    /\ Cardinality(ret.val) = 2

\* C12: update_tag_color(name, color) on a tag of the registry returns true,
\* leaves one record of that name, of the new color and with the entry set
\* the tag had, and keeps every other tag and every entry; on a name that is
\* no tag it returns false and changes nothing.
C12_UpdateTagColorFrame ==
    [][ret'.op = "update_tag_color" =>
        LET name == ret'.name
            new == Tag(name, ret'.color)
        IN /\ entries' = entries
           /\ OthersKept(tags, tags', name)
           /\ IF \E k \in DOMAIN tags : k.name = name
              THEN /\ ret'.val = TRUE
                   /\ {k \in DOMAIN tags' : k.name = name} = {new}
                   /\ tags'[new] = SetOf(tags, name)
              ELSE ret'.val = FALSE /\ tags' = tags]_vars

\* a tag that two entries carry was recolored next to another tag
C12_Witness ==
    /\ ret.op = "update_tag_color"
    /\ ret.val = TRUE
    /\ Tag(ret.name, ret.color) \in DOMAIN tags
    /\ Cardinality(tags[Tag(ret.name, ret.color)]) = 2
    /\ Cardinality(DOMAIN tags) = 2

\* the registry holds one Tag record per name
OneRecordPerName(t) == \A k, l \in DOMAIN t : k.name = l.name => k = l

\* C13: whatever the colors of the Tag values the calls are made with, the
\* registry holds at most one Tag record per name; tag_entry with a Tag whose
\* name is in the registry under another color adds the entry to the record
\* that is there and creates no second one.
C13_OneTagPerName ==
    [][OneRecordPerName(tags') /\
       (ret'.op = "tag_entry" =>
          \A k \in DOMAIN tags :
             (k.name = ret'.tag.name /\ k.color # ret'.tag.color)
                 => /\ DOMAIN tags' = DOMAIN tags
                    /\ tags'[k] = tags[k] \cup {ret'.id})]_vars

\* an entry was tagged with a Tag of a color other than the stored one, and
\* joined the entry the record had
C13_Witness ==
    /\ ret.op = "tag_entry"
    /\ ret.val = None
    /\ ret.tag \notin DOMAIN tags
    /\ \E k \in DOMAIN tags :
          k.name = ret.tag.name /\ ret.id \in tags[k] /\ Cardinality(tags[k]) = 2

\* C14: the registry loaded from the file that save() wrote has the tags, the
\* entry set of every tag and the id-to-path entries of the registry saved.
C14_SaveLoadRoundTrip ==
    [][ret'.op = "load" => tags' = tags /\ entries' = entries]_vars

\* a registry of two tags, one of them of the second color and on two
\* entries, was saved and loaded
C14_Witness ==
    /\ ret.op = "load"
    /\ Cardinality(DOMAIN tags) = 2
    /\ Cardinality(DOMAIN entries) = 2
    /\ \E k \in DOMAIN tags : k.color = 2 /\ Cardinality(tags[k]) = 2

\* C15: every handler that changes the registry saves it before it answers
\* and lets the registry go (requests and the removal after a watch event
\* alike), so between the handlers the registry the file holds is the
\* registry in memory.
C15_SavedBeforeReply == load_or_new(disk) = Reg

\* the tag name an attribute key stands for, whichever codec wrote the key
KeyName(k) == IF k.enc = "cbor" THEN k.of.name ELSE k.of

\* C16: the key Tag::hash builds for a tag decodes through Tag::try_from to
\* a tag of the same name, so the tags list_tags returns for a file include
\* every tag whose key save_to put on it.
C16_CodecRoundTrip ==
    \A p \in exists : \A t \in Tags :
        hash(t) \in xattrs[p]
            => /\ try_from(hash(t)) # None
               /\ try_from(hash(t))[1].name = t.name
               /\ \E u \in list_tags(xattrs, exists, p)[1] : u.name = t.name

\* C17: on a file that is there, save_to fails with TagExists and changes no
\* attribute when the file carries a key of the tag's name already;
\* otherwise it succeeds and the file gains exactly one key it did not have,
\* every other key staying as it was.
C17_SaveToCreatesOnly ==
    [][(ret'.op = "save_to" /\ node_of(links, exists, ret'.path) # None) =>
          LET n == node_of(links, exists, ret'.path)[1]
          IN IF \E k \in xattrs[n] : KeyName(k) = ret'.tag.name
             THEN (~ret'.val.ok) /\ ret'.val.err = "TagExists" /\ xattrs' = xattrs
             ELSE ret'.val.ok /\
                  (\E k \in xattrs'[n] \ xattrs[n] :
                       (KeyName(k) = ret'.tag.name) /\
                       (xattrs' = [xattrs EXCEPT ![n] = @ \cup {k}]))]_vars

\* a refusal on a file that carries the name under a key of each codec
C17_Witness ==
    /\ ret.op = "save_to"
    /\ ret.val.err = "TagExists"
    /\ \E q \in Paths :
          /\ \E k \in xattrs[q] : k.enc = "name" /\ k.of = ret.tag.name
          /\ \E k \in xattrs[q] : k.enc = "cbor" /\ k.of.name = ret.tag.name

\* C18: a tag operation addressed to a path that is a symbolic link leaves
\* the attributes of the file the link names as they were.
C18_LinkTargetUntouched ==
    [][(ret'.op \in {"save_to", "remove_from", "clear_tags", "list_tags"}
          /\ links[ret'.path] # None)
        => xattrs'[links[ret'.path][1]] = xattrs[links[ret'.path][1]]]_vars

\* C19: at the second call of a retrieval, whenever the system returns a
\* count of bytes that is not the size the first call reported, the
\* retrieval ends with AttrsChanged; and the bytes a fetch passes on are the
\* whole value (the whole name list) as it is then, of exactly the size asked
\* for: never a part of it, never more.
C19_AttrsChangedOnRace ==
    [][(ret'.op = "fetch" /\ pending # None) =>
          LET w == pending[1]
              k == IF w.pc = "get_fetch"
                   THEN sys_getxattr(raw, w.name, w.size)
                   ELSE sys_listxattr(raw, w.size)
              whole == IF w.pc = "get_fetch" THEN raw[w.name] ELSE list_bytes(raw, 1)
          IN ((k.ret # -1 /\ k.ret # w.size)
                 => (ret'.val = Some(Err("AttrsChanged")))) /\
             (ret'.fetch.ok
                 => (ret'.fetch.data = whole /\ Len(ret'.fetch.data) = w.size))]_vars

\* a value that shrank between the two calls was reported as AttrsChanged
C19_Witness ==
    /\ ret.op = "fetch"
    /\ ret.call = "get_xattr"
    /\ ret.val = Some(Err("AttrsChanged"))
    /\ \E n \in DOMAIN raw : Len(raw[n]) = 1

\* C20: what accept_request returns for a connection IpcClient::request
\* wrote to is the Request the client passed, and what the client's
\* read_response returns is the Response send_response was given.
C20_WireRoundTrip ==
    [][((ret'.op = "accept_request" /\ conn[1].writer = "send_request")
           => ret'.val = Ok(conn[1].request)) /\
       (ret'.op = "read_response"
           => ret'.val = Ok(conn[1].response[1]))]_vars

\* C23: a Search request whose list of tag names is empty is answered with
\* the error variant, which carries no entries, whether any is true or
\* false, and the registry stays as it was.
C23_EmptySearchIsError ==
    [][(ret'.op = "Search" /\ ret'.names = <<>>)
          => ((~ret'.val.ok) /\ ret'.val.found = {} /\
              tags' = tags /\ entries' = entries)]_vars

\* an empty Search was refused on a registry that holds a tagged entry
C23_Witness ==
    /\ ret.op = "Search"
    /\ ret.names = <<>>
    /\ ~ret.val.ok
    /\ ~ret.any
    /\ \E k \in DOMAIN tags : tags[k] \cap DOMAIN entries # {}

\* C29: when the daemon with the notify loop has started, no entry of the
\* registry names a path that is not there, the registry file holds the
\* registry, and the paths of the entries are the paths watched.
C29_StartupDropsMissing ==
    [][(ret'.op = "main" /\ backend = "notify")
          => ((\A i \in DOMAIN entries' : entries'[i] \in exists') /\
              disk' = Some(save(Registry(tags', entries'))) /\
              watched' = {entries'[i] : i \in DOMAIN entries'})]_vars

\* C21: IpcServer.conns never holds more than one connection, and holds none
\* whenever the connection thread is about to call accept_request: the
\* exchange of one request is over before the next is accepted.
C21_OneConnectionAtATime ==
    /\ Len(conns) <= 1
    /\ h1.pc = "accept" => conns = <<>>

\* a request is being answered while another client waits at the listener
C21_Witness ==
    /\ h1.pc = "respond"
    /\ Len(conns) = 1
    /\ backlog # <<>>

\* C22: when accept_request does not deliver a request, the registry and
\* conns are as before, nothing was dispatched, and the daemon runs on, its
\* connection thread back at accept_request.
C22_FailedAcceptOnlyAbortsExchange ==
    [][(ret'.op = "accept_request" /\ ret'.val \notin {"ok", "blocked"})
          => (tags' = tags /\ entries' = entries /\ conns' = conns /\
              alive' /\ h1'.pc = "accept")]_vars

\* the registry holds the tag of that name for the entry of the path
HasTag(r, path, name) ==
    \E id \in DOMAIN r.entries :
        /\ r.entries[id] = path
        /\ \E k \in DOMAIN r.tags : k.name = name /\ id \in r.tags[k]
EntryNames(r, id) == {k.name : k \in {k \in DOMAIN r.tags : id \in r.tags[k]}}
ListNames(tgs) == {tgs[i].name : i \in DOMAIN tgs}
ListPaths(files) == {files[i] : i \in DOMAIN files}
\* how many of the failures are about that file and that tag name
Failures(failed, path, name) ==
    Cardinality({k \in DOMAIN failed : failed[k][1] = path /\ failed[k][2] = name})

\* C24: whatever TagFiles request is served in a state the daemon reaches, if
\* it reports no errors then every file of the request that the registry did
\* not hold before has exactly one entry, whose tags are the requested ones,
\* and the wutag attributes on the file are exactly the keys of the requested
\* tags, whatever was on the file before.
C24_TagFilesSetsExactly ==
    \A files \in PathLists, tgs \in TagLists :
        \A nows \in [DOMAIN files -> EntryIds] :
            LET d == tag_files(Reg, xattrs, exists, files, tgs, nows)
            IN d.val.ok
                  => \A f \in ListPaths(files) :
                        find_entry(entries, f) = None
                           => /\ Cardinality({id \in DOMAIN d.reg.entries :
                                                 d.reg.entries[id] = f}) = 1
                              /\ \A id \in DOMAIN d.reg.entries :
                                    d.reg.entries[id] = f
                                       => EntryNames(d.reg, id) = ListNames(tgs)
                              /\ d.x[f] = {hash(tgs[i]) : i \in DOMAIN tgs}

\* the pairs of a tagging batch: none fails twice, one that did not fail is
\* in the registry afterwards, one that failed is there exactly if it was
PairsTagged(before, after, files, tgs, failed) ==
    \A i \in DOMAIN files, j \in DOMAIN tgs :
        /\ Failures(failed, files[i], tgs[j].name) <= 1
        /\ Failures(failed, files[i], tgs[j].name) = 0
              => HasTag(after, files[i], tgs[j].name)
        /\ Failures(failed, files[i], tgs[j].name) = 1
              => (HasTag(after, files[i], tgs[j].name)
                    <=> HasTag(before, files[i], tgs[j].name))

\* the pairs of an untagging batch
PairsUntagged(before, after, files, tgs, failed) ==
    \A i \in DOMAIN files, j \in DOMAIN tgs :
        /\ Failures(failed, files[i], tgs[j].name) <= 1
        /\ Failures(failed, files[i], tgs[j].name) = 0
              => ~HasTag(after, files[i], tgs[j].name)
        /\ Failures(failed, files[i], tgs[j].name) = 1
              => (HasTag(after, files[i], tgs[j].name)
                    <=> HasTag(before, files[i], tgs[j].name))

\* the files of a clearing batch
FilesCleared(before, after, files, failed) ==
    \A i \in DOMAIN files :
        /\ Failures(failed, files[i], 0) <= 1
        /\ Failures(failed, files[i], 0) = 0
              => \A n \in Names : ~HasTag(after, files[i], n)
        /\ Failures(failed, files[i], 0) = 1
              => \A n \in Names : HasTag(after, files[i], n) <=> HasTag(before, files[i], n)

\* C25: whatever TagFiles, UntagFiles, CopyTags or ClearFiles request is
\* served in a state the daemon reaches, every file and every (file, tag) pair
\* of it is processed: the response carries one error string for each failure,
\* a pair that did not fail is applied to the registry, and a pair that failed
\* is in the registry exactly if it was before.
C25_BatchNeverAborts ==
    /\ \A files \in PathLists \ {<<>>}, tgs \in TagLists \ {<<>>} :
          \A nows \in [DOMAIN files -> EntryIds] :
             LET d == tag_files(Reg, xattrs, exists, files, tgs, nows)
                 failed == failed_pairs(Reg, xattrs, exists, files, tgs, nows)
             IN /\ Len(d.val.errors) = Len(failed)
                /\ PairsTagged(Reg, d.reg, files, tgs, failed)
    /\ \A files \in PathLists \ {<<>>}, tgs \in TagLists \ {<<>>} :
          LET d == untag_files(Reg, xattrs, exists, files, tgs)
              failed == failed_untags(Reg, xattrs, exists, files, tgs)
          IN /\ Len(d.val.errors) = Len(failed)
             /\ PairsUntagged(Reg, d.reg, files, tgs, failed)
    /\ \A source \in Paths, target \in PathLists \ {<<>>} :
          \A nows \in [DOMAIN target -> EntryIds] :
             LET d == copy_tags(Reg, xattrs, exists, source, target, nows)
                 tgs == source_tags(xattrs, exists, source)
                 failed == failed_pairs(Reg, xattrs, exists, target, tgs, nows)
             IN tgs # <<>>
                   => /\ Len(d.val.errors) = Len(failed)
                      /\ PairsTagged(Reg, d.reg, target, tgs, failed)
    /\ \A files \in PathLists \ {<<>>} :
          LET d == clear_files(Reg, xattrs, exists, files)
              failed == failed_clears(Reg, xattrs, exists, files)
          IN /\ Len(d.val.errors) = Len(failed)
             /\ FilesCleared(Reg, d.reg, files, failed)

\* C27: the daemon process ends only when the registry lock is poisoned: a
\* step that ends it finds the lock poisoned, never merely held.
C27_OnlyPoisonTerminates ==
    [][(alive /\ ~alive') => lock = "poisoned"]_vars

\* C28: an acquisition that finds the lock poisoned ends the process, in a
\* handler and in the watch loop alike.
C28_PoisonTerminates ==
    [][(ret'.op = "acquire" /\ ret'.found = "poisoned") => ~alive']_vars

\* C30: every acquisition of the registry lock returns the guard when it
\* finds the lock free, and gives up only with the contention error after
\* more than one and fewer than GiveUpAt attempts when it finds the lock held.
C30_BoundedRetries ==
    [][ret'.op = "acquire"
          => /\ ret'.attempts < GiveUpAt
             /\ ret'.found = "free" => ret'.val = "Ok"
             /\ ret'.found = "held"
                   => (ret'.val = "Lock" /\ ret'.attempts > 1 /\ alive')]_vars

\* C26: once the removal of a tracked file is reported to Handler, the
\* registry eventually has no entry of the path, the file holds that
\* registry, and the path is not watched.
C26_RemovalReconciled ==
    \A p \in Files :
        (ret.op = "handle_event" /\ ret.path = p /\ ret.tracked)
            ~> (find_entry(entries, p) = None /\ disk = Some(save(Reg)) /\ p \notin watched)

\* the requests of the daemon's steps, each named as its variant of Request
RequestOps ==
    {"TagFiles", "UntagFiles", "EditTag", "CopyTags", "ClearFiles", "ClearTags",
     "Ping", "ClearCache"}

\* C38: the response to a request is the Response variant of the request's
\* own operation, whether it reports success or an error.
C38_ResponseVariantMatches ==
    ret.op \in RequestOps => ret.val.kind = ret.op

C36_WatchedAreEntries ==
    (backend = "notify" /\ entries_events = <<>> /\ fs_events = <<>>)
        => watched = {entries[i] : i \in DOMAIN entries}

\* the names of the wutag attributes a file carries
AttrNamesOf(path) == {KeyName(k) : k \in xattrs[path]}

\* C37: with nothing but the daemon touching the files, between the requests
\* the tag names the registry records for an entry are the names of the
\* attributes on the entry's file.
C37_RegistryMatchesAttributes ==
    \A id \in DOMAIN entries : EntryNames(Reg, id) = AttrNamesOf(entries[id])

\* the failures of one tagging run, in the order they were met: none follows
\* a TagListFull of the same file
StopsWhenFull(failed) ==
    \A i, j \in DOMAIN failed :
        (i < j /\ failed[i][1] = failed[j][1]) => failed[i][3] # "TagListFull"
\* every tag asked for was tried on the files that were not found full: it is
\* on the file afterwards or among the failures
TriedOnTheRest(x, files, tgs, failed) ==
    \A f \in ListPaths(files) :
        (\A k \in DOMAIN failed : failed[k][1] = f => failed[k][3] # "TagListFull")
            => \A i \in DOMAIN tgs :
                  hash(tgs[i]) \in x[f] \/ Failures(failed, f, tgs[i].name) = 1

\* C33: in a tagging run of the daemon (tag_files) and of the command line
\* (App::set), no tag is tried on a file after a write to that file failed
\* with TagListFull, and every tag is tried on the other files.
C33_StopsAtCapacity ==
    \A files \in PathLists \ {<<>>}, tgs \in TagLists \ {<<>>} :
        \A nows \in [DOMAIN files -> EntryIds] :
            LET w == tag_files_loop(Work(Reg, xattrs), exists, files, tgs, nows)
                a == set(Work(Reg, xattrs), exists, files, tgs, nows)
            IN /\ StopsWhenFull(w.errors)
               /\ TriedOnTheRest(w.x, files, tgs, w.errors)
               /\ StopsWhenFull(a.errors)
               /\ TriedOnTheRest(a.x, files, tgs, a.errors)

\* the value of a hexadecimal digit, by its place among the digits
HexDigits == <<48, 49, 50, 51, 52, 53, 54, 55, 56, 57>>
HexUpper == <<65, 66, 67, 68, 69, 70>>
HexLower == <<97, 98, 99, 100, 101, 102>>
IsHex(ch) ==
    \E i \in 1..10 : HexDigits[i] = ch \/ (i <= 6 /\ (HexUpper[i] = ch \/ HexLower[i] = ch))
DigitOf(ch) ==
    CHOOSE v \in 0..15 :
        \/ v <= 9 /\ HexDigits[v + 1] = ch
        \/ v >= 10 /\ (HexUpper[v - 9] = ch \/ HexLower[v - 9] = ch)
\* the six characters of a string that is six hex digits after an optional
\* `0x` or `#`, None for every other string
SixDigits(str) ==
    LET six(c) == Len(c) = 6 /\ \A i \in 1..6 : IsHex(c[i])
    IN IF six(str) THEN Some(str)
       ELSE IF Len(str) = 8 /\ SubSeq(str, 1, 2) = <<48, 120>> /\ six(SubSeq(str, 3, 8))
       THEN Some(SubSeq(str, 3, 8))
       ELSE IF Len(str) = 7 /\ str[1] = 35 /\ six(SubSeq(str, 2, 7))
       THEN Some(SubSeq(str, 2, 7))
       ELSE None

\* C40: parse_color answers TrueColor, with r, g, b the values 16*high + low
\* of the three pairs, exactly for six hex digits after an optional `0x` or
\* `#`, and InvalidColor for every other string.
C40_ParseColorExact ==
    ret.op = "parse_color"
       => IF SixDigits(raw) = None
          THEN ~ret.val.ok /\ ret.val.rgb = "InvalidColor"
          ELSE /\ ret.val.ok
               /\ \A k \in 1..3 :
                     ret.val.rgb[k] = 16 * DigitOf(SixDigits(raw)[1][2 * k - 1])
                                         + DigitOf(SixDigits(raw)[1][2 * k])

\* C31: a handler is in push_event only after it has let go of the registry:
\* the connection thread never holds the guard of the registry while it asks
\* for, or holds, the lock of the pending-events queue.
C31_PushAfterRelease ==
    (h1.pc \in {"push", "pushing"} \/ "ENTRIES_EVENTS" \in h1.holds) => lock # "h1"

\* C32: the callback of the watcher takes its step whatever the state of the
\* registry lock and never changes it, an event is lost to it only while the
\* loop holds the lock of the notify queue, and the loop holds that lock at no
\* moment at which it asks for, or holds, the registry.
C32_CallbackNeverWaitsForRegistry ==
    [][/\ h2'.pc \in {"acquire", "hold"} => "NOTIFY_EVENTS" \notin h2'.holds
       /\ ret'.op = "handle_event"
             => /\ lock' = lock
                /\ ret'.val = ("NOTIFY_EVENTS" \notin h2.holds)
                /\ fs_events' = IF ret'.val THEN Append(fs_events, ret'.path)
                                ELSE fs_events]_vars

\* the callback pushed its event while a request handler held the registry
C32_Witness ==
    /\ ret.op = "handle_event"
    /\ ret.val
    /\ lock = "h1"
    /\ fs_events # <<>>

\* the deltas the handlers of the model produce
Deltas == {EntryEvent(kind, <<f>>) : kind \in {"Add", "Remove"}, f \in Files}

\* C35: a delta that a handler gave to push_event, into the queue or, the
\* queue being locked, into unprocessed_events, is eventually among the
\* deltas the watch loop takes from the queue.
C35_DeltasConsumed ==
    \A e \in Deltas :
        (ret.op = "push_event" /\ ret.event = e /\ ret.val \in {"pushed", "kept"})
            ~> (ret.op = "handle_entries_events" /\ \E i \in DOMAIN ret.taken : ret.taken[i] = e)

\* C39: the watch loop has a step to take in every state, whatever the other
\* threads hold, and every iteration it begins comes to its end: the loop is
\* back at its start (or the process or the thread has ended).
C39_LoopNeverBlocks ==
    /\ []((alive /\ h2.pc # "dead") => ENABLED WatchLoop)
    /\ (h2.pc # "poll") ~> (h2.pc \in {"poll", "dead"} \/ ~alive)

\* the loop gave up on the registry, which a request handler still holds, and
\* is back at its start
C39_Witness ==
    /\ ret.op = "acquire"
    /\ ret.by = "h2"
    /\ ret.val = "Lock"
    /\ lock = "h1"
    /\ h2.pc = "poll"
====
